---- MODULE Spec2Model ----
(***************************************************************************)
(* Model of the Electoral Commission (ec crate) of criptocracia: the       *)
(* in-memory election map, the SQLite store, the admin gRPC handlers, the  *)
(* periodic status checker and the Nostr event loop (token requests and    *)
(* votes).                                                                 *)
(*                                                                         *)
(* Every handler is one action over its in-memory critical section plus    *)
(* the store writes and relay sends that follow it; SpecMutex alone runs   *)
(* the critical sections statement by statement.  `last` holds what        *)
(* the most recent handler observed and returned (its log lines, its       *)
(* response, the events it sent).  `hist` is history kept only for the     *)
(* properties (who was registered, who was issued a token); the program    *)
(* never reads it.                                                         *)
(***************************************************************************)
EXTENDS Integers, Sequences, FiniteSets, TLC

VARIABLES
    elections,  \* HashMap<String, Election> behind the mutex (main.rs:200)
    db,         \* the SQLite tables (database.rs:71-142)
    now,        \* the wall clock, chrono::Utc::now().timestamp()
    tokens,     \* h_n byte strings on which the EC key has produced a blind signature
    hist,       \* per election id: history variables for the properties
    last,       \* outcome of the most recent handler
    elections_guard,  \* the task that holds the MutexGuard of the map (main.rs:316)
    pc          \* per running handler: the statement it has reached and its locals

vars == <<elections, db, now, tokens, hist, last, elections_guard, pc>>

----------------------------------------------------------------------------
(* Bounds of the model *)

\* The wall clock runs from 0 to MaxTime.
MaxTime == 2
\* The per-voter count of issued tokens kept in hist saturates here.
IssueCap == 2

\* Ids nanoid! can draw (election.rs:55-60); two of the 16^4.
ElectionIds == {"a1", "b2"}
\* Voter identities (secp256k1 x-only public keys).
VoterKeys == {"k1", "k2"}
\* h_n as sent on the wire (big-endian bytes); <<1>> and <<0, 1>> are the same number.
HNBytes == {<<1>>, <<1, 0>>}
\* Candidate ids a ballot may carry; 1 is a candidate of every election, 2 of none.
VoteValues == {1, 2}
\* start_time and duration of AddElection requests.
StartTimes == {1}
Durations == {1}

NoId == "none"
NoHn == -1
\* No task holds the guard
NoTask == "no task"

----------------------------------------------------------------------------
(* Status *)

Open == "Open"
InProgress == "InProgress"
Finished == "Finished"
Canceled == "Canceled"
Status == {Open, InProgress, Finished, Canceled}

----------------------------------------------------------------------------
(* Times are u64 (start_time, duration, end_time, current_time).  A u64 is *)
(* held as the integer congruent to it modulo 2^64 that is nearest to      *)
(* zero: 0, 1, 2, .. are themselves and -1 is 2^64 - 1.  Wrapping addition *)
(* is then integer addition, and the order of u64 puts every negative      *)
(* representative above every non-negative one.                            *)

\* u64::MAX
U64Max == -1

\* a < b on u64
U64Lt(a, b) == IF (a < 0) = (b < 0) THEN a < b ELSE b < 0

\* a >= b on u64
U64Geq(a, b) == ~U64Lt(a, b)

\* a.wrapping_add(b): what `a + b` leaves in a build without overflow checks
WrappingAdd(a, b) == a + b

\* Whether `a + b` overflows u64 (a panic in a build with overflow checks)
Overflows(a, b) == U64Lt(WrappingAdd(a, b), a)

----------------------------------------------------------------------------
(* Voter public keys as strings.  A string is a record: `form` is the      *)
(* encoding it is written in ("hex", "npub" for bech32, "junk" for text    *)
(* that is neither) and `key` the key it encodes ("bad" when the text does *)
(* not decode to a key).                                                   *)

NoPk == [form |-> "none", key |-> "none"]

\* voter_pk.starts_with("npub")
StartsWithNpub(s) == s.form = "npub"
\* PublicKey::parse on a string that starts with npub
PublicKeyParseOk(s) == s.form = "npub" /\ s.key \in VoterKeys
\* PublicKey::from_hex
PublicKeyFromHexOk(s) == s.form = "hex" /\ s.key \in VoterKeys
\* pk.to_hex()
ToHex(k) == [form |-> "hex", key |-> k]
\* pk.to_bech32()
ToBech32(k) == [form |-> "npub", key |-> k]

----------------------------------------------------------------------------
(* h_n: bytes on the wire, BigUint in memory, lower-case hex in the store. *)

RECURSIVE FromBytesBE(_)
\* BigUint::from_bytes_be
FromBytesBE(bytes) ==
    IF bytes = <<>> THEN 0
    ELSE FromBytesBE(SubSeq(bytes, 1, Len(bytes) - 1)) * 256 + bytes[Len(bytes)]

RECURSIVE FormatDecimal(_)
\* format!("{}", h_n): the decimal digits
FormatDecimal(n) ==
    IF n < 10 THEN <<n>> ELSE Append(FormatDecimal(n \div 10), n % 10)

RECURSIVE FormatHex(_)
\* format!("{:x}", h_n): the hex digits, most significant first, no leading zero
FormatHex(n) ==
    IF n < 16 THEN <<n>> ELSE Append(FormatHex(n \div 16), n % 16)

RECURSIVE ParseDigits(_)
ParseDigits(digits) ==
    IF digits = <<>> THEN 0
    ELSE ParseDigits(SubSeq(digits, 1, Len(digits) - 1)) * 16 + digits[Len(digits)]

\* BigUint::parse_bytes(token.as_bytes(), 16): None (NoHn here) on an empty
\* string or a character that is no hex digit
ParseBytes16(digits) ==
    IF digits = <<>> \/ \E i \in 1..Len(digits) : digits[i] \notin 0..15
    THEN NoHn
    ELSE ParseDigits(digits)

----------------------------------------------------------------------------
(* RSA blind signatures (blind_rsa_signatures).  A blinded message hides   *)
(* the bytes it was made from; the signer cannot read them, the model      *)
(* can.  A blinded message that is not well formed for the key (wrong      *)
(* length, not below the modulus) makes blind_sign fail.  A signature      *)
(* verifies on a message only if it was made with the EC secret key on     *)
(* that very message.                                                      *)

EcKey == "ec"
NoSig == [ok |-> FALSE, hn |-> <<>>]

\* SecretKey::blind_sign
BlindSign(blinded) ==
    IF blinded.wf THEN [ok |-> TRUE, hn |-> blinded.hn] ELSE NoSig

\* A verification that checks the message and not the key that signed it
VerifyAnySigner(token, h_n_bytes) == token.msg = h_n_bytes

\* Signature::verify(&pk, Some(msg_rand), &h_n_bytes, &options)
Verify(token, h_n_bytes) == token.signer = EcKey /\ token.msg = h_n_bytes

----------------------------------------------------------------------------
(* The Election aggregate (election.rs) *)

Ok == "ok"
ErrNotInProgress == "Cannot receive vote: election is not in progress"
ErrDuplicate == "duplicated vote"
ErrUnauthorized == "Unauthorized voter or nonce hash already issued"
ErrSigning == "signing error"
ErrNpub == "Invalid npub format"
ErrPubkey == "Invalid pubkey format"

\* Election::new; the id is the one nanoid! drew.  `start_time + duration`
\* is the wrapped sum here; the caller decides what an overflow does.
ElectionNew(id, name, candidates, start_time, duration, rsa_pub_key) ==
    [id |-> id,
     name |-> name,
     authorized_voters |-> {},
     used_tokens |-> {},
     votes |-> <<>>,
     candidates |-> candidates,
     start_time |-> start_time,
     end_time |-> WrappingAdd(start_time, duration),
     status |-> Open,
     rsa_pub_key |-> rsa_pub_key]

\* The normalisation register_voter and issue_token share: the hex form of
\* the key, or the error of the branch that rejected the string.
NormalizePk(voter_pk) ==
    IF StartsWithNpub(voter_pk)
    THEN IF PublicKeyParseOk(voter_pk)
         THEN [ok |-> TRUE, hex |-> ToHex(voter_pk.key), err |-> Ok]
         ELSE [ok |-> FALSE, hex |-> NoPk, err |-> ErrNpub]
    ELSE IF PublicKeyFromHexOk(voter_pk)
         THEN [ok |-> TRUE, hex |-> ToHex(voter_pk.key), err |-> Ok]
         ELSE [ok |-> FALSE, hex |-> NoPk, err |-> ErrPubkey]

\* A register_voter that stores the string it was given
RegisterVoterAsGiven(el, voter_pk) ==
    IF el.status # Open THEN el
    ELSE LET n == NormalizePk(voter_pk)
         IN  IF ~n.ok THEN el
             ELSE IF voter_pk \in el.authorized_voters THEN el
             ELSE [el EXCEPT !.authorized_voters = @ \cup {voter_pk}]

\* A register_voter that does not look at the status
RegisterVoterAnyStatus(el, voter_pk) ==
    LET n == NormalizePk(voter_pk)
    IN  IF ~n.ok THEN el
        ELSE IF n.hex \in el.authorized_voters THEN el
        ELSE [el EXCEPT !.authorized_voters = @ \cup {n.hex}]

\* Election::register_voter
RegisterVoter(el, voter_pk) ==
    IF el.status # Open THEN el
    ELSE LET n == NormalizePk(voter_pk)
         IN  IF ~n.ok THEN el
             ELSE IF n.hex \in el.authorized_voters THEN el
             ELSE [el EXCEPT !.authorized_voters = @ \cup {n.hex}]

\* An issue_token that signs for any well-formed key, authorized or not
IssueTokenAnyVoter(el, voter_pk, blinded_h_n) ==
    LET n == NormalizePk(voter_pk)
    IN  IF ~n.ok THEN [el |-> el, res |-> n.err, sig |-> NoSig]
        ELSE LET removed == [el EXCEPT !.authorized_voters = @ \ {n.hex}]
                 blind_sig == BlindSign(blinded_h_n)
             IN  IF ~blind_sig.ok
                 THEN [el |-> removed, res |-> ErrSigning, sig |-> NoSig]
                 ELSE [el |-> removed, res |-> Ok, sig |-> blind_sig]

\* Election::issue_token: the election after the call, the result, the signature
IssueToken(el, voter_pk, blinded_h_n) ==
    LET n == NormalizePk(voter_pk)
    IN  IF ~n.ok THEN [el |-> el, res |-> n.err, sig |-> NoSig]
        ELSE IF n.hex \notin el.authorized_voters
        THEN [el |-> el, res |-> ErrUnauthorized, sig |-> NoSig]
        ELSE LET removed == [el EXCEPT !.authorized_voters = @ \ {n.hex}]
                 blind_sig == BlindSign(blinded_h_n)
             IN  IF ~blind_sig.ok
                 THEN [el |-> removed, res |-> ErrSigning, sig |-> NoSig]
                 ELSE [el |-> removed, res |-> Ok, sig |-> blind_sig]

\* A receive_vote that looks for the duplicate before it looks at the status
ReceiveVoteDuplicateFirst(el, h_n, vote) ==
    IF h_n \in el.used_tokens THEN [el |-> el, res |-> ErrDuplicate]
    ELSE IF el.status # InProgress THEN [el |-> el, res |-> ErrNotInProgress]
    ELSE [el |-> [el EXCEPT !.used_tokens = @ \cup {h_n},
                            !.votes = Append(@, vote)],
          res |-> Ok]

\* A receive_vote that pushes the vote whatever insert returned
ReceiveVoteIgnoresInsert(el, h_n, vote) ==
    IF el.status # InProgress THEN [el |-> el, res |-> ErrNotInProgress]
    ELSE [el |-> [el EXCEPT !.used_tokens = @ \cup {h_n},
                            !.votes = Append(@, vote)],
          res |-> Ok]

\* A receive_vote that reports the duplicate after it has pushed the vote
ReceiveVotePushesFirst(el, h_n, vote) ==
    IF el.status # InProgress THEN [el |-> el, res |-> ErrNotInProgress]
    ELSE IF h_n \in el.used_tokens
    THEN [el |-> [el EXCEPT !.votes = Append(@, vote)], res |-> ErrDuplicate]
    ELSE [el |-> [el EXCEPT !.used_tokens = @ \cup {h_n},
                            !.votes = Append(@, vote)],
          res |-> Ok]

\* Election::receive_vote: the election after the call and the result
ReceiveVote(el, h_n, vote) ==
    IF el.status # InProgress THEN [el |-> el, res |-> ErrNotInProgress]
    ELSE IF h_n \in el.used_tokens THEN [el |-> el, res |-> ErrDuplicate]
    ELSE [el |-> [el EXCEPT !.used_tokens = @ \cup {h_n},
                            !.votes = Append(@, vote)],
          res |-> Ok]

\* A should_be_in_progress that looks at the time window only
ShouldBeInProgressAnyStatus(el, current_time) ==
    U64Geq(current_time, el.start_time) /\ U64Lt(current_time, el.end_time)

\* Election::should_be_in_progress
ShouldBeInProgress(el, current_time) ==
    /\ U64Geq(current_time, el.start_time)
    /\ U64Lt(current_time, el.end_time)
    /\ el.status = Open

\* A should_be_finished for elections in progress only
ShouldBeFinishedFromInProgress(el, current_time) ==
    U64Geq(current_time, el.end_time) /\ el.status = InProgress

\* A should_be_finished that waits until end_time has passed
ShouldBeFinishedStrict(el, current_time) ==
    U64Lt(el.end_time, current_time) /\ (el.status = Open \/ el.status = InProgress)

\* A should_be_finished that looks at the time only
ShouldBeFinishedAnyStatus(el, current_time) == U64Geq(current_time, el.end_time)

\* Election::should_be_finished
ShouldBeFinished(el, current_time) ==
    U64Geq(current_time, el.end_time) /\ (el.status = Open \/ el.status = InProgress)

\* Election::update_status_based_on_time: the election after the call and
\* whether the status changed
UpdateStatusBasedOnTime(el, current_time) ==
    LET new_status ==
            IF ShouldBeFinished(el, current_time) THEN Finished
            ELSE IF ShouldBeInProgress(el, current_time) THEN InProgress
            ELSE el.status
    IN  [el |-> [el EXCEPT !.status = new_status], changed |-> el.status # new_status]

\* A tally that reads a vote as a position in the candidate list
TallyByPosition(el) ==
    LET Hit == {el.votes[k] : k \in 1..Len(el.votes)} \cap (1..Len(el.candidates))
    IN  [i \in Hit |-> Cardinality({k \in 1..Len(el.votes) : el.votes[k] = i})]

\* Election::tally: a count for every candidate that `find` returned for some
\* vote (the first candidate of the list with that id); other votes are skipped
Tally(el) ==
    LET Found(v) == {i \in 1..Len(el.candidates) : el.candidates[i].id = v}
        First(v) == CHOOSE i \in Found(v) : \A j \in Found(v) : i <= j
        Hit == {First(el.votes[k]) : k \in {k \in 1..Len(el.votes) : Found(el.votes[k]) # {}}}
    IN  [i \in Hit |->
            Cardinality({k \in 1..Len(el.votes) :
                            Found(el.votes[k]) # {} /\ First(el.votes[k]) = i})]

\* The status strings of as_json and of the elections table
StatusString(status) ==
    CASE status = Open -> "open"
      [] status = InProgress -> "in-progress"
      [] status = Finished -> "finished"
      [] status = Canceled -> "canceled"

\* Election::as_json
AsJson(el) ==
    [id |-> el.id, name |-> el.name, start_time |-> el.start_time,
     end_time |-> el.end_time, candidates |-> el.candidates,
     status |-> StatusString(el.status), rsa_pub_key |-> el.rsa_pub_key]

----------------------------------------------------------------------------
(* The store (database.rs).  A table is the set of its rows; the columns   *)
(* id, created_at and updated_at are left out.                             *)

EmptyDb ==
    [elections |-> {}, candidates |-> {}, used_tokens |-> {}, election_voters |-> {}]

ElectionRow(el) ==
    [id |-> el.id, name |-> el.name, start_time |-> el.start_time,
     end_time |-> el.end_time, status |-> StatusString(el.status),
     rsa_pub_key |-> el.rsa_pub_key]

RECURSIVE UpsertCandidates(_, _, _)
\* Database::upsert_candidates: one INSERT .. ON CONFLICT(election_id,
\* candidate_id) DO UPDATE SET name per candidate, in list order
UpsertCandidates(rows, election_id, candidates) ==
    IF candidates = <<>> THEN rows
    ELSE LET c == Head(candidates)
             old == {r \in rows : r.election_id = election_id /\ r.candidate_id = c.id}
             new == IF old = {}
                    THEN {[election_id |-> election_id, candidate_id |-> c.id,
                           name |-> c.name, vote_count |-> 0]}
                    ELSE {[r EXCEPT !.name = c.name] : r \in old}
         IN  UpsertCandidates((rows \ old) \cup new, election_id, Tail(candidates))

\* Database::upsert_election: UPDATE the row with this id or INSERT it, then
\* upsert_candidates
UpsertElection(d, el) ==
    [d EXCEPT
        !.elections = {r \in @ : r.id # el.id} \cup {ElectionRow(el)},
        !.candidates = UpsertCandidates(@, el.id, el.candidates)]

\* Database::update_vote_counts; vote_counts is a set of <<candidate_id, count>>
UpdateVoteCounts(d, election_id, vote_counts) ==
    [d EXCEPT !.candidates =
        {IF r.election_id = election_id /\ \E vc \in vote_counts : vc[1] = r.candidate_id
         THEN [r EXCEPT !.vote_count =
                  (CHOOSE vc \in vote_counts : vc[1] = r.candidate_id)[2]]
         ELSE r : r \in @}]

\* Database::save_election_voters: INSERT .. ON CONFLICT DO NOTHING per voter
SaveElectionVoters(d, election_id, voters) ==
    [d EXCEPT !.election_voters =
        @ \cup {[election_id |-> election_id, voter_pubkey |-> v] : v \in voters}]

\* A save_used_token that writes no row
SaveUsedTokenNowhere(d, election_id, token_hash) == d

\* Database::save_used_token: INSERT .. ON CONFLICT DO NOTHING
SaveUsedToken(d, election_id, token_hash) ==
    [d EXCEPT !.used_tokens =
        @ \cup {[election_id |-> election_id, token_hash |-> token_hash]}]

\* Election::save_used_token_to_db
SaveUsedTokenToDb(d, el, h_n) == SaveUsedToken(d, el.id, FormatHex(h_n))

\* Database::get_candidates: the rows of the election, ORDER BY candidate_id
GetCandidates(d, election_id) ==
    LET rows == {r \in d.candidates : r.election_id = election_id}
    IN  CHOOSE records \in [1..Cardinality(rows) -> rows] :
           \A i, j \in 1..Cardinality(rows) :
              i < j => records[i].candidate_id < records[j].candidate_id

\* Database::load_all_elections
LoadAllElections(d) == d.elections

\* Database::load_election_voters
LoadElectionVoters(d, election_id) ==
    {r.voter_pubkey : r \in {r \in d.election_voters : r.election_id = election_id}}

\* Database::load_used_tokens
LoadUsedTokens(d, election_id) ==
    {r.token_hash : r \in {r \in d.used_tokens : r.election_id = election_id}}

\* The match on election_record.status in from_database
StatusFromString(status) ==
    CASE status = "open" -> Open
      [] status = "in-progress" -> InProgress
      [] status = "finished" -> Finished
      [] status = "canceled" -> Canceled
      [] OTHER -> Open

\* Election::from_database
FromDatabase(election_record, candidate_records, authorized_voters, used_tokens) ==
    [id |-> election_record.id,
     name |-> election_record.name,
     authorized_voters |-> authorized_voters,
     used_tokens |-> {ParseBytes16(token) : token \in used_tokens} \ {NoHn},
     votes |-> <<>>,
     candidates |-> [i \in DOMAIN candidate_records |->
                        [id |-> candidate_records[i].candidate_id,
                         name |-> candidate_records[i].name]],
     start_time |-> election_record.start_time,
     end_time |-> election_record.end_time,
     status |-> StatusFromString(election_record.status),
     rsa_pub_key |-> election_record.rsa_pub_key]

\* load_elections_from_database, and the map main builds from its result
LoadElectionsFromDatabase(d) ==
    [id \in {r.id : r \in LoadAllElections(d)} |->
        FromDatabase(CHOOSE r \in LoadAllElections(d) : r.id = id,
                     GetCandidates(d, id),
                     LoadElectionVoters(d, id),
                     LoadUsedTokens(d, id))]

----------------------------------------------------------------------------
(* Relay events *)

\* publish_election_event: the kind 35000 event it sends
ElectionEvent(el) == [kind |-> 35000, eid |-> el.id, to |-> NoPk, body |-> AsJson(el)]

\* The kind 35001 event of the vote handler; json_results pairs candidate
\* id and count for the entries of the tally
JsonResults(el) == {<<el.candidates[i].id, Tally(el)[i]>> : i \in DOMAIN Tally(el)}
TallyEvent(election_id, json_results) ==
    [kind |-> 35001, eid |-> election_id, to |-> NoPk, body |-> json_results]

\* A token response built under the id "m1" whatever the request's id was
TokenReplyOwnId(id, voter, blind_sig) ==
    [kind |-> 1, id |-> "m1", eid |-> NoId, to |-> voter, body |-> blind_sig]

\* The gift-wrapped token response: Message::new(message.id, 1, b64(blind_sig))
TokenReply(id, voter, blind_sig) ==
    [kind |-> 1, id |-> id, eid |-> NoId, to |-> voter, body |-> blind_sig]

----------------------------------------------------------------------------
(* State *)

\* hist[id]: who register_voter has added to the election now held under id,
\* how many tokens issue_token has issued to each voter in it (saturating at
\* IssueCap), the h_n it has signed, whose signing failed, and the h_n on
\* which receive_vote has returned Ok.
EmptyHist ==
    [registered |-> {}, issued |-> [k \in VoterKeys |-> 0], signed |-> {}, burned |-> {},
     accepted |-> {}]

\* What a handler leaves behind: the operation, the request or message it
\* handled, the result of every call it made on an election (calls[id]),
\* whether it reported success (the admin response, a token reply sent, a
\* vote accepted), and the events it sent to the relay, in order.
Outcome(op, req, calls, ok, sent) ==
    [op |-> op, req |-> req, calls |-> calls, ok |-> ok, sent |-> sent]

NoCalls == <<>>
NoReq == <<>>
Idle(op) == Outcome(op, NoReq, NoCalls, FALSE, <<>>)

\* The orders in which an iteration over the map may visit the ids in S
Orders(S) ==
    {o \in [1..Cardinality(S) -> S] : \A i, j \in DOMAIN o : o[i] = o[j] => i = j}

\* HashMap::insert
Insert(map, id, el) ==
    [x \in DOMAIN map \cup {id} |-> IF x = id THEN el ELSE map[x]]

Init ==
    /\ elections = <<>>
    /\ db = EmptyDb
    /\ now = 0
    /\ tokens = {}
    /\ hist = [id \in ElectionIds |-> EmptyHist]
    /\ last = Idle("start")
    /\ elections_guard = NoTask
    /\ pc = <<>>

----------------------------------------------------------------------------
(* The wall clock *)

AdvanceClock ==
    /\ now < MaxTime
    /\ now' = now + 1
    /\ last' = Idle("clock")
    /\ UNCHANGED <<elections_guard, pc, elections, db, tokens, hist>>

----------------------------------------------------------------------------
(* The admin service (grpc/admin.rs) *)

\* The key the EC publishes in every election (pk_der_b64)
EcPubKey == "ec_pub_der_b64"

\* AdminServiceImpl::validate_election_name
ValidateElectionName(name) == Len(name) # 0 /\ Len(name) <= 100

\* AdminServiceImpl::validate_candidate
ValidateCandidate(candidate_id, name) ==
    /\ candidate_id # 0
    /\ candidate_id <= 255
    /\ Len(name) # 0
    /\ Len(name) <= 50

\* AdminServiceImpl::validate_voter_pubkey
ValidateVoterPubkey(pubkey) ==
    IF StartsWithNpub(pubkey) THEN PublicKeyParseOk(pubkey) ELSE PublicKeyFromHexOk(pubkey)

\* The panic of `start_time + duration` in a build with overflow checks
ErrOverflow == "attempt to add with overflow"

\* The AddElectionRequest, with the election_id of the response
AddElectionReq(election_id, name, start_time, duration, candidates) ==
    [election_id |-> election_id, name |-> name, start_time |-> start_time,
     duration |-> duration, candidates |-> candidates]

\* AdminServiceImpl::add_election; id is the id Election::new draws
AddElection(id, name, start_time, duration, candidates) ==
    IF \/ ~ValidateElectionName(name)
       \/ start_time = 0
       \/ duration = 0
       \/ candidates = <<>>
       \/ \E i \in 1..Len(candidates) :
             ~ValidateCandidate(candidates[i].id, candidates[i].name)
    THEN /\ last' = Outcome("add_election",
                            AddElectionReq("", name, start_time, duration, candidates),
                            NoCalls, FALSE, <<>>)
         /\ UNCHANGED <<elections_guard, pc, elections, db, now, tokens, hist>>
    ELSE LET election == ElectionNew(id, name, candidates, start_time, duration, EcPubKey)
         IN  \* Election::new panics on the sum in a build with overflow
             \* checks: the handler ends there, without a response
             \/ /\ Overflows(start_time, duration)
                /\ last' = Outcome("add_election",
                                   AddElectionReq("", name, start_time, duration, candidates),
                                   id :> ErrOverflow, FALSE, <<>>)
                /\ UNCHANGED <<elections_guard, pc, elections, db, now, tokens, hist>>
             \* otherwise the sum wraps
             \/ /\ elections' = Insert(elections, id, election)
                \* upsert_election, then publish_election_event, which sends
                \* the event and upserts again
                /\ db' = UpsertElection(UpsertElection(db, election), election)
                /\ hist' = [hist EXCEPT ![id] = EmptyHist]
                /\ last' = Outcome("add_election",
                                   AddElectionReq(id, name, start_time, duration, candidates),
                                   NoCalls, TRUE, <<ElectionEvent(election)>>)
                /\ UNCHANGED <<elections_guard, pc, now, tokens>>

\* AdminServiceImpl::add_candidate
AddCandidate(election_id, candidate_id, name) ==
    LET req == [election_id |-> election_id, candidate_id |-> candidate_id, name |-> name]
    IN  IF \/ ~ValidateCandidate(candidate_id, name)
           \/ election_id \notin DOMAIN elections
           \/ \E i \in 1..Len(elections[election_id].candidates) :
                 elections[election_id].candidates[i].id = candidate_id
        THEN /\ last' = Outcome("add_candidate", req, NoCalls, FALSE, <<>>)
             /\ UNCHANGED <<elections_guard, pc, elections, db, now, tokens, hist>>
        ELSE LET election == [elections[election_id] EXCEPT
                                 !.candidates = Append(@, [id |-> candidate_id, name |-> name])]
             IN  /\ elections' = [elections EXCEPT ![election_id] = election]
                 /\ db' = UpsertElection(db, election)
                 /\ last' = Outcome("add_candidate", req, NoCalls, TRUE, <<>>)
                 /\ UNCHANGED <<elections_guard, pc, now, tokens, hist>>

\* AdminServiceImpl::add_voter
AddVoter(name, election_id, pubkey) ==
    IF \/ name = ""
       \/ election_id = ""
       \/ ~ValidateVoterPubkey(pubkey)
       \/ election_id \notin DOMAIN elections
    THEN /\ last' = Outcome("add_voter", [election_id |-> election_id, pubkey |-> pubkey],
                            NoCalls, FALSE, <<>>)
         /\ UNCHANGED <<elections_guard, pc, elections, db, now, tokens, hist>>
    ELSE LET election == RegisterVoter(elections[election_id], pubkey)
             added == election.authorized_voters \ elections[election_id].authorized_voters
         IN  /\ db' = SaveElectionVoters(db, election_id, {pubkey})
             /\ elections' = [elections EXCEPT ![election_id] = election]
             /\ hist' = [hist EXCEPT ![election_id].registered =
                                        @ \cup {v.key : v \in added}]
             /\ last' = Outcome("add_voter", [election_id |-> election_id, pubkey |-> pubkey],
                                election_id :> "()", TRUE, <<>>)
             /\ UNCHANGED <<elections_guard, pc, now, tokens>>

\* A cancel_election without the check for an election already canceled
CancelElectionAgain(election_id) ==
    IF \/ election_id = ""
       \/ election_id \notin DOMAIN elections
    THEN /\ last' = Outcome("cancel", [election_id |-> election_id], NoCalls, FALSE, <<>>)
         /\ UNCHANGED <<elections_guard, pc, elections, db, now, tokens, hist>>
    ELSE LET election == [elections[election_id] EXCEPT !.status = Canceled]
         IN  /\ elections' = [elections EXCEPT ![election_id] = election]
             /\ db' = UpsertElection(UpsertElection(db, election), election)
             /\ last' = Outcome("cancel", [election_id |-> election_id], NoCalls, TRUE,
                                <<ElectionEvent(election)>>)
             /\ UNCHANGED <<elections_guard, pc, now, tokens, hist>>

\* AdminServiceImpl::cancel_election
CancelElection(election_id) ==
    IF \/ election_id = ""
       \/ election_id \notin DOMAIN elections
       \/ elections[election_id].status = Canceled
    THEN /\ last' = Outcome("cancel", [election_id |-> election_id], NoCalls, FALSE, <<>>)
         /\ UNCHANGED <<elections_guard, pc, elections, db, now, tokens, hist>>
    ELSE LET election == [elections[election_id] EXCEPT !.status = Canceled]
         IN  /\ elections' = [elections EXCEPT ![election_id] = election]
             /\ db' = UpsertElection(UpsertElection(db, election), election)
             /\ last' = Outcome("cancel", [election_id |-> election_id], NoCalls, TRUE,
                                <<ElectionEvent(election)>>)
             /\ UNCHANGED <<elections_guard, pc, now, tokens, hist>>

----------------------------------------------------------------------------
(* The periodic election status checker (main.rs:203-256) *)

RECURSIVE PersistAndPublish(_, _)
\* The loop over elections_to_update: upsert_election, then
\* publish_election_event (send, upsert again)
PersistAndPublish(d, snapshots) ==
    IF snapshots = <<>> THEN d
    ELSE PersistAndPublish(UpsertElection(UpsertElection(d, Head(snapshots)), Head(snapshots)),
                           Tail(snapshots))

\* One tick; order is the order in which iter_mut visits the map
StatusTick(order) ==
    LET updated == [id \in DOMAIN elections |->
                        UpdateStatusBasedOnTime(elections[id], now)]
        changed == SelectSeq(order, LAMBDA id : updated[id].changed)
        elections_to_update == [i \in DOMAIN changed |-> updated[changed[i]].el]
    IN  /\ elections' = [id \in DOMAIN elections |-> updated[id].el]
        /\ db' = PersistAndPublish(db, elections_to_update)
        /\ last' = Outcome("tick", [current_time |-> now],
                           [id \in DOMAIN elections |-> updated[id].changed],
                           changed # <<>>,
                           [i \in DOMAIN changed |-> ElectionEvent(updated[changed[i]].el)])
        /\ UNCHANGED <<elections_guard, pc, now, tokens, hist>>

----------------------------------------------------------------------------
(* The event loop (main.rs:272-580) *)

\* An envelope the loop drops before it reaches an election: the outer
\* signature does not verify, the rumor cannot be extracted, the content is
\* no Message, the kind is neither 1 nor 2, or the payload does not decode.
DropEnvelope ==
    /\ last' = Idle("drop")
    /\ UNCHANGED <<elections_guard, pc, elections, db, now, tokens, hist>>

RECURSIVE LegacyIssue(_, _, _, _)
\* The legacy loop of the token request: issue_token on each election in
\* turn until one succeeds.  The map after the loop, the signature, and the
\* result of every call made.
LegacyIssue(map, order, voter_pk, blinded_h_n) ==
    IF order = <<>> THEN [map |-> map, sig |-> NoSig, calls |-> NoCalls]
    ELSE LET id == Head(order)
             r == IssueToken(map[id], voter_pk, blinded_h_n)
             map2 == [map EXCEPT ![id] = r.el]
         IN  IF r.res = Ok
             THEN [map |-> map2, sig |-> r.sig, calls |-> id :> r.res]
             ELSE LET rest == LegacyIssue(map2, Tail(order), voter_pk, blinded_h_n)
                  IN  [rest EXCEPT !.calls = (id :> r.res) @@ @]

\* A critical section that runs the legacy loop when the named election is
\* not in the map
IssueSectionFallsBack(map, election_id, order, voter_pk, blinded_h_n) ==
    IF election_id # NoId /\ election_id \in DOMAIN map
    THEN LET r == IssueToken(map[election_id], voter_pk, blinded_h_n)
         IN  [map |-> [map EXCEPT ![election_id] = r.el], sig |-> r.sig,
              calls |-> election_id :> r.res]
    ELSE LegacyIssue(map, CHOOSE o \in Orders(DOMAIN map) : TRUE, voter_pk, blinded_h_n)

\* The critical section of the token request (main.rs:315-354)
IssueSection(map, election_id, order, voter_pk, blinded_h_n) ==
    IF election_id # NoId
    THEN IF election_id \in DOMAIN map
         THEN LET r == IssueToken(map[election_id], voter_pk, blinded_h_n)
              IN  [map |-> [map EXCEPT ![election_id] = r.el], sig |-> r.sig,
                   calls |-> election_id :> r.res]
         ELSE [map |-> map, sig |-> NoSig, calls |-> NoCalls]
    ELSE LegacyIssue(map, order, voter_pk, blinded_h_n)

\* A kind 1 message with id message_id from `sender`; election_id is NoId
\* for a legacy request
TokenRequest(message_id, sender, election_id, blinded_h_n, order) ==
    LET voter_pk == ToHex(sender)   \* voter.to_string()
        r == IssueSection(elections, election_id, order, voter_pk, blinded_h_n)
        Count(id) == IF id \in DOMAIN r.calls /\ r.calls[id] = Ok
                     THEN IF hist[id].issued[sender] < IssueCap
                          THEN hist[id].issued[sender] + 1 ELSE IssueCap
                     ELSE hist[id].issued[sender]
    IN  /\ elections' = r.map
        /\ tokens' = IF r.sig.ok THEN tokens \cup {r.sig.hn} ELSE tokens
        /\ hist' = [id \in ElectionIds |->
                      [hist[id] EXCEPT
                         !.issued[sender] = Count(id),
                         !.signed = IF id \in DOMAIN r.calls /\ r.calls[id] = Ok
                                    THEN @ \cup {r.sig.hn} ELSE @,
                         !.burned = IF id \in DOMAIN r.calls /\ r.calls[id] = ErrSigning
                                    THEN @ \cup {sender} ELSE @]]
        /\ last' = Outcome("token",
                           [id |-> message_id, election_id |-> election_id,
                            voter_pk |-> voter_pk, blinded_h_n |-> blinded_h_n],
                           r.calls, r.sig.ok,
                           IF r.sig.ok THEN <<TokenReply(message_id, voter_pk, r.sig)>>
                           ELSE <<>>)
        /\ UNCHANGED <<elections_guard, pc, db, now>>

RECURSIVE LegacyVote(_, _, _, _)
\* The legacy loop of the vote: receive_vote on each election in turn until
\* one accepts.  The map after the loop, the id that accepted, every result.
LegacyVote(map, order, h_n, vote) ==
    IF order = <<>> THEN [map |-> map, by |-> NoId, calls |-> NoCalls]
    ELSE LET id == Head(order)
             r == ReceiveVote(map[id], h_n, vote)
         IN  IF r.res = Ok
             THEN [map |-> [map EXCEPT ![id] = r.el], by |-> id, calls |-> id :> r.res]
             ELSE LET rest == LegacyVote(map, Tail(order), h_n, vote)
                  IN  [rest EXCEPT !.calls = (id :> r.res) @@ @]

\* The critical section of the vote (main.rs:451-510)
VoteSection(map, election_id, order, h_n, vote) ==
    IF election_id # NoId
    THEN IF election_id \in DOMAIN map
         THEN LET r == ReceiveVote(map[election_id], h_n, vote)
              IN  [map |-> [map EXCEPT ![election_id] = r.el],
                   by |-> IF r.res = Ok THEN election_id ELSE NoId,
                   calls |-> election_id :> r.res]
         ELSE [map |-> map, by |-> NoId, calls |-> NoCalls]
    ELSE LegacyVote(map, order, h_n, vote)

\* A kind 2 message whose payload decoded to h_n_bytes, token and vote
Vote(election_id, h_n_bytes, token, vote, order) ==
    LET h_n == FromBytesBE(h_n_bytes)
        req == [election_id |-> election_id, h_n_bytes |-> h_n_bytes,
                token |-> token, vote |-> vote]
    IN  IF ~Verify(token, h_n_bytes)
        THEN /\ last' = Outcome("vote", req, NoCalls, FALSE, <<>>)
             /\ UNCHANGED <<elections_guard, pc, elections, db, now, tokens, hist>>
        ELSE LET r == VoteSection(elections, election_id, order, h_n, vote)
             IN  /\ elections' = r.map
                 /\ db' = IF r.by = NoId THEN db
                          ELSE UpdateVoteCounts(SaveUsedTokenToDb(db, r.map[r.by], h_n),
                                                r.by, JsonResults(r.map[r.by]))
                 /\ hist' = IF r.by = NoId THEN hist
                            ELSE [hist EXCEPT ![r.by].accepted = @ \cup {h_n}]
                 /\ last' = Outcome("vote", req, r.calls, r.by # NoId,
                                    IF r.by = NoId THEN <<>>
                                    ELSE <<TallyEvent(r.by, JsonResults(r.map[r.by]))>>)
                 /\ UNCHANGED <<elections_guard, pc, now, tokens>>

----------------------------------------------------------------------------
(* The system.  Environment(env) is every step of the three tasks (admin   *)
(* server, status checker, event loop) and of the clock, with the requests *)
(* and envelopes drawn from the sets in env: the ids nanoid! may draw, the *)
(* election names, the elections the admin adds voters to and the key      *)
(* strings it submits, the voters who send token requests, the h_n and     *)
(* ballots voters send.  An id already in the map is not drawn again here. *)

CandidateLists == {<<[id |-> 1, name |-> "Alice"]>>}
Junk == [form |-> "junk", key |-> "bad"]
Malformed == [wf |-> FALSE, hn |-> <<>>]

\* The tokens a voter can put in a ballot: the signatures the EC key has
\* made, each on the h_n it was made on, and signatures made with another key
Presentable(hns) ==
    {[signer |-> EcKey, msg |-> m] : m \in tokens}
        \cup {[signer |-> "forger", msg |-> m] : m \in hns}

\* The orders a handler's iteration over the map may take; a request that
\* names its election iterates over nothing
LegacyOrders(election_id) ==
    IF election_id = NoId THEN Orders(DOMAIN elections) ELSE {<<>>}

Environment(env) ==
    \/ AdvanceClock
    \/ \E id \in env.ids \ DOMAIN elections, name \in env.names,
          start_time \in StartTimes, duration \in Durations,
          candidates \in env.candidates :
          AddElection(id, name, start_time, duration, candidates)
    \/ \E name \in {"Voter"}, election_id \in env.voter_ids, pubkey \in env.admin_keys :
          AddVoter(name, election_id, pubkey)
    \/ \E election_id \in env.ids : CancelElection(election_id)
    \/ \E order \in Orders(DOMAIN elections) : StatusTick(order)
    \/ DropEnvelope
    \/ \E message_id \in env.message_ids, sender \in env.senders,
          election_id \in env.ids \cup {NoId},
          blinded_h_n \in [wf : {TRUE}, hn : env.hns] \cup {Malformed} :
          \E order \in LegacyOrders(election_id) :
             TokenRequest(message_id, sender, election_id, blinded_h_n, order)
    \/ \E election_id \in env.ids \cup {NoId}, h_n_bytes \in env.hns,
          token \in Presentable(env.hns), vote \in env.vote_values :
          \E order \in LegacyOrders(election_id) :
             Vote(election_id, h_n_bytes, token, vote, order)

\* One election in depth: a voter the admin registers and one it never
\* does, two h_n, ballots for a candidate and for no candidate
Next ==
    Environment([ids |-> {"a1"}, names |-> {"Board", ""}, voter_ids |-> {"a1"},
                 admin_keys |-> {ToHex("k1"), Junk}, senders |-> VoterKeys,
                 hns |-> HNBytes, vote_values |-> VoteValues,
                 candidates |-> CandidateLists, message_ids |-> {"m1"}])

Spec == Init /\ [][Next]_vars

\* Two elections that share the EC key; the admin registers the voter in
\* the first
NextShared ==
    Environment([ids |-> ElectionIds, names |-> {"Board"}, voter_ids |-> {"a1"},
                 admin_keys |-> {ToHex("k1")}, senders |-> {"k1"},
                 hns |-> {<<1>>}, vote_values |-> {1},
                 candidates |-> CandidateLists, message_ids |-> {"m1", "m2"}])

SpecShared == Init /\ [][NextShared]_vars

\* The process stops between two handlers and main starts again on the same
\* store and the same keys
Restart ==
    /\ elections' = LoadElectionsFromDatabase(db)
    /\ last' = Idle("restart")
    /\ UNCHANGED <<elections_guard, pc, db, now, tokens, hist>>

\* One election and one voter across restarts, the admin submitting the
\* voter's key as the strings in admin_keys
RestartEnvironment(admin_keys, candidates) ==
    \/ Environment([ids |-> {"a1"}, names |-> {"Board"}, voter_ids |-> {"a1"},
                    admin_keys |-> admin_keys, senders |-> {"k1"},
                    hns |-> {<<1, 0>>}, vote_values |-> {1},
                    candidates |-> candidates, message_ids |-> {"m1"}])
    \/ Restart

\* The voter registered by hex key; the candidate lists are one candidate,
\* and two given in descending order of id
NextRestart ==
    RestartEnvironment({ToHex("k1")},
                       {<<[id |-> 1, name |-> "Alice"]>>,
                        <<[id |-> 2, name |-> "Bob"], [id |-> 1, name |-> "Alice"]>>})

SpecRestart == Init /\ [][NextRestart]_vars

\* The voter registered by npub
NextRestartNpub == RestartEnvironment({ToBech32("k1")}, CandidateLists)

SpecRestartNpub == Init /\ [][NextRestartNpub]_vars

\* The status checker's interval fires again and again and the wall clock
\* moves on: two elections under weak fairness of the tick and of the
\* clock.  The admin's add_voter requests are refused here, so no token is
\* issued and no vote accepted; the status of an election does not depend
\* on either.
Tick == \E order \in Orders(DOMAIN elections) : StatusTick(order)

NextLive ==
    Environment([ids |-> ElectionIds, names |-> {"Board"}, voter_ids |-> {"a1"},
                 admin_keys |-> {Junk}, senders |-> {"k1"},
                 hns |-> {<<1>>}, vote_values |-> {1},
                 candidates |-> CandidateLists, message_ids |-> {"m1"}])

SpecLive == Init /\ [][NextLive]_vars /\ WF_vars(AdvanceClock) /\ WF_vars(Tick)

----------------------------------------------------------------------------
(* The Election aggregate on its own, driven as the tests of election.rs   *)
(* drive it: one election from Election::new, then any sequence of calls   *)
(* of its methods with the clock passing between them.                     *)

\* The latest time the calls are made at
MaxCallTime == 5

InitElection ==
    /\ \E start_time \in {2, 3}, duration \in {1, 2}, candidates \in CandidateLists :
          elections = "a1" :> ElectionNew("a1", "Board", candidates, start_time,
                                          duration, EcPubKey)
    /\ db = EmptyDb
    /\ now = 0
    /\ tokens = {}
    /\ hist = [id \in ElectionIds |-> EmptyHist]
    /\ last = Idle("start")
    /\ elections_guard = NoTask
    /\ pc = <<>>

\* election.register_voter(voter_pk)
CallRegisterVoter(election_id, voter_pk) ==
    /\ elections' = [elections EXCEPT ![election_id] = RegisterVoter(@, voter_pk)]
    /\ last' = Outcome("register_voter", [election_id |-> election_id, voter_pk |-> voter_pk],
                       election_id :> "()", TRUE, <<>>)
    /\ UNCHANGED <<elections_guard, pc, db, now, tokens, hist>>

\* election.issue_token(BlindTokenRequest { voter_pk, blinded_h_n }, sk, rng)
CallIssueToken(election_id, voter_pk, blinded_h_n) ==
    LET r == IssueToken(elections[election_id], voter_pk, blinded_h_n)
    IN  /\ elections' = [elections EXCEPT ![election_id] = r.el]
        /\ tokens' = IF r.sig.ok THEN tokens \cup {r.sig.hn} ELSE tokens
        /\ last' = Outcome("issue_token",
                           [election_id |-> election_id, voter_pk |-> voter_pk,
                            blinded_h_n |-> blinded_h_n],
                           election_id :> r.res, r.sig.ok, <<>>)
        /\ UNCHANGED <<elections_guard, pc, db, now, hist>>

\* election.update_status_based_on_time(current_time), the clock having
\* reached current_time
CallUpdateStatus(election_id, current_time) ==
    LET r == UpdateStatusBasedOnTime(elections[election_id], current_time)
    IN  /\ current_time >= now
        /\ now' = current_time
        /\ elections' = [elections EXCEPT ![election_id] = r.el]
        /\ last' = Outcome("update_status", [current_time |-> current_time],
                           election_id :> r.changed, r.changed, <<>>)
        /\ UNCHANGED <<elections_guard, pc, db, tokens, hist>>

\* election.status = Status::Canceled
SetCanceled(election_id) ==
    /\ elections' = [elections EXCEPT ![election_id].status = Canceled]
    /\ last' = Outcome("set_canceled", [election_id |-> election_id], NoCalls, TRUE, <<>>)
    /\ UNCHANGED <<elections_guard, pc, db, now, tokens, hist>>

\* The key strings of the calls: both forms of two keys, a string that is
\* no key, and an npub that does not parse
NextElection ==
    \/ \E voter_pk \in {ToHex("k1"), ToBech32("k1"), ToHex("k2"), ToBech32("k2"), Junk,
                         [form |-> "npub", key |-> "bad"]} :
          \/ CallRegisterVoter("a1", voter_pk)
          \/ \E blinded_h_n \in [wf : {TRUE}, hn : {<<1>>}] \cup {Malformed} :
                CallIssueToken("a1", voter_pk, blinded_h_n)
    \/ \E current_time \in 0..MaxCallTime : CallUpdateStatus("a1", current_time)
    \/ SetCanceled("a1")

SpecElection == InitElection /\ [][NextElection]_vars

----------------------------------------------------------------------------
(* Election::tally driven as test_tally_counts drives it: an election set  *)
(* to InProgress, receive_vote called with any h_n and any vote value,     *)
(* tally called after any number of votes.                                 *)

\* The candidate lists: three candidates in order of id, two in descending
\* order, and two that share an id (add_election accepts such a list)
InitTally ==
    /\ \E candidates \in
             {<<[id |-> 1, name |-> "Alice"], [id |-> 2, name |-> "Bob"],
                [id |-> 3, name |-> "Charlie"]>>,
              <<[id |-> 2, name |-> "Bob"], [id |-> 1, name |-> "Alice"]>>,
              <<[id |-> 1, name |-> "Alice"], [id |-> 1, name |-> "Bob"]>>} :
          elections = "a1" :> [ElectionNew("a1", "Board", candidates, 1, 1, EcPubKey)
                                  EXCEPT !.status = InProgress]
    /\ db = EmptyDb
    /\ now = 0
    /\ tokens = {}
    /\ hist = [id \in ElectionIds |-> EmptyHist]
    /\ last = Idle("start")
    /\ elections_guard = NoTask
    /\ pc = <<>>

\* election.receive_vote(h_n, vote)
CallReceiveVote(election_id, h_n, vote) ==
    LET r == ReceiveVote(elections[election_id], h_n, vote)
    IN  /\ elections' = [elections EXCEPT ![election_id] = r.el]
        /\ hist' = IF r.res = Ok THEN [hist EXCEPT ![election_id].accepted = @ \cup {h_n}]
                   ELSE hist
        /\ last' = Outcome("receive_vote",
                           [election_id |-> election_id, h_n |-> h_n, vote |-> vote],
                           election_id :> r.res, r.res = Ok, <<>>)
        /\ UNCHANGED <<db, now, tokens, elections_guard, pc>>

\* election.tally(); calls[election_id] is the map it returns, keyed by the
\* position of the candidate in the list
CallTally(election_id) ==
    /\ last' = Outcome("tally", [election_id |-> election_id],
                       election_id :> Tally(elections[election_id]), TRUE, <<>>)
    /\ UNCHANGED <<elections, db, now, tokens, hist, elections_guard, pc>>

\* The h_n of the votes, and the values they carry; 7 is no candidate's id
NextTally ==
    \/ \E h_n \in {1, 2, 3}, vote \in {1, 2, 7} : CallReceiveVote("a1", h_n, vote)
    \/ CallTally("a1")

SpecTally == InitTally /\ [][NextTally]_vars

----------------------------------------------------------------------------
(* The admin service on its own: every kind of AddElection, AddCandidate   *)
(* and CancelElection request, valid and invalid, with the clock and the   *)
(* status checker running.                                                 *)

\* A name of 101 characters and one of 51
LongElectionName ==
    "eeeeeeeeeeeeeeeeeeeeeeeeeeeeeeeeeeeeeeeeeeeeeeeeeeeeeeeeeeeeeeeeeeeeeeeeeeeeeeeeeeeeeeeeeeeeeeeeeeeee"
LongCandidateName == "ccccccccccccccccccccccccccccccccccccccccccccccccccc"

\* AddElection requests: the candidate lists are none, one candidate, two
\* with the same id, an id of 0, an id of 256, an empty name, a name too
\* long.  AddCandidate and CancelElection requests: b2 is never added.
NextAdmin ==
    \/ AdvanceClock
    \/ \E id \in {"a1"} \ DOMAIN elections, name \in {"", "Board", LongElectionName},
          start_time \in {0, 1, U64Max}, duration \in {0, 1},
          candidates \in
             {<<>>,
              <<[id |-> 1, name |-> "Alice"]>>,
              <<[id |-> 1, name |-> "Alice"], [id |-> 1, name |-> "Bob"]>>,
              <<[id |-> 0, name |-> "Alice"]>>,
              <<[id |-> 1, name |-> "Alice"], [id |-> 256, name |-> "Bob"]>>,
              <<[id |-> 1, name |-> ""]>>,
              <<[id |-> 1, name |-> LongCandidateName]>>} :
          AddElection(id, name, start_time, duration, candidates)
    \/ \E election_id \in {"a1", "b2", ""} :
          \/ \E candidate_id \in {0, 1, 2, 255, 256}, name \in {"", "Bob", LongCandidateName} :
                AddCandidate(election_id, candidate_id, name)
          \/ CancelElection(election_id)
    \/ Tick

SpecAdmin == Init /\ [][NextAdmin]_vars

----------------------------------------------------------------------------
(* The critical sections statement by statement.  Handlers run as tasks    *)
(* that interleave at every statement: two token requests of one voter and *)
(* two votes with one h_n (as if the event loop handled them at once), the *)
(* status checker, and one request to the admin service, which is a        *)
(* cancel_election, an add_voter or an add_candidate.  A task enters its   *)
(* critical section through elections.lock().await and leaves it when the *)
(* guard is dropped.  HashSet::remove and HashSet::insert are a lookup     *)
(* followed by the change; only the guard keeps another task from running  *)
(* between the two.  Results stay in pc; `last` is not written.            *)

\* The handler each task runs; the admin task runs the handler of the
\* request it receives
TaskOp ==
    [tok1 |-> "token", tok2 |-> "token", vote1 |-> "vote", vote2 |-> "vote",
     checker |-> "tick", admin |-> ""]
MutexTasks == DOMAIN TaskOp
TokenTasks == {task \in MutexTasks : TaskOp[task] = "token"}
VoteTasks == {task \in MutexTasks : TaskOp[task] = "vote"}

\* The requests of the tasks: the election, the voter of both token requests
\* and of the add_voter, the blinded message, the h_n and ballot of both
\* votes, the candidate of the add_candidate
Task ==
    [election |-> "a1", voter |-> ToHex("k1"), blinded |-> [wf |-> TRUE, hn |-> <<1>>],
     h_n |-> <<1>>, vote |-> 1, candidate |-> [id |-> 2, name |-> "Bob"]]

\* A task before its first statement: the handler it runs ("" for an admin
\* request not yet received), the statement it is at, the result of its
\* last lookup (for the checker: whether the status changed), the result of
\* its call (for the checker: current_time), what it keeps for after the
\* section, and the map entry it saw when it took the guard
StartPc(op) ==
    [op |-> op, at |-> "start", found |-> FALSE, res |-> "", keep |-> <<>>, seen |-> <<>>]

\* The statements at which the guard is alive
Inside == {"find", "erase", "sign", "status", "put", "push", "save", "update", "check",
           "set", "exists", "register", "dup", "append", "unlock"}

\* A lock() that returns at once, whoever holds the guard
LockWithoutWaiting(task) == elections_guard' = task

\* elections.lock().await: returns when no guard is alive
Lock(task) == elections_guard = NoTask /\ elections_guard' = task

\* The task moves on with its statement and locals as in `new`
Goto(task, new) == pc' = [pc EXCEPT ![task] = new]

InitMutex ==
    LET election == RegisterVoter(ElectionNew(Task.election, "Board",
                                              <<[id |-> 1, name |-> "Alice"]>>, 1, 1, EcPubKey),
                                  Task.voter)
    IN  /\ elections = Task.election :> election
        /\ db = SaveElectionVoters(UpsertElection(EmptyDb, election), Task.election, {Task.voter})
        /\ now = 0
        /\ tokens = {}
        /\ hist = [id \in ElectionIds |->
                     IF id = Task.election THEN [EmptyHist EXCEPT !.registered = {"k1"}]
                     ELSE EmptyHist]
        /\ last = Idle("start")
        /\ elections_guard = NoTask
        /\ pc = [task \in MutexTasks |-> StartPc(TaskOp[task])]

\* Token request, main.rs:315-316: take the guard
TokenLock(task) ==
    /\ pc[task].at = "start"
    /\ Lock(task)
    /\ Goto(task, [pc[task] EXCEPT !.at = "find", !.seen = elections[Task.election]])
    /\ UNCHANGED <<elections, db, now, tokens, hist, last>>

\* issue_token, election.rs:183: authorized_voters.remove looks the key up
TokenFind(task) ==
    /\ pc[task].at = "find"
    /\ Goto(task, [pc[task] EXCEPT
                      !.at = "erase",
                      !.found = Task.voter \in elections[Task.election].authorized_voters])
    /\ UNCHANGED <<elections, db, now, tokens, hist, last, elections_guard>>

\* issue_token, election.rs:183-185: remove takes the key out, or the
\* request is refused
TokenErase(task) ==
    /\ pc[task].at = "erase"
    /\ IF pc[task].found
       THEN /\ elections' = [elections EXCEPT
                                ![Task.election].authorized_voters = @ \ {Task.voter}]
            /\ Goto(task, [pc[task] EXCEPT !.at = "sign"])
       ELSE /\ Goto(task, [pc[task] EXCEPT !.at = "unlock", !.res = ErrUnauthorized])
            /\ UNCHANGED elections
    /\ UNCHANGED <<db, now, tokens, hist, last, elections_guard>>

\* issue_token, election.rs:187-191: blind_sign
TokenSign(task) ==
    LET blind_sig == BlindSign(Task.blinded)
    IN  /\ pc[task].at = "sign"
        /\ tokens' = tokens \cup {blind_sig.hn}
        /\ hist' = [hist EXCEPT
                       ![Task.election].issued["k1"] = IF @ < IssueCap THEN @ + 1 ELSE @,
                       ![Task.election].signed = @ \cup {blind_sig.hn}]
        /\ Goto(task, [pc[task] EXCEPT !.at = "unlock", !.res = Ok, !.keep = blind_sig])
        /\ UNCHANGED <<elections, db, now, last, elections_guard>>

\* Vote, main.rs:437-445: the token is verified before the guard is taken.
\* The voter holds a token on h_n once the EC has signed h_n.
VoteVerify(task) ==
    /\ pc[task].at = "start"
    /\ Task.h_n \in tokens
    /\ Verify([signer |-> EcKey, msg |-> Task.h_n], Task.h_n)
    /\ Goto(task, [pc[task] EXCEPT !.at = "lock"])
    /\ UNCHANGED <<elections, db, now, tokens, hist, last, elections_guard>>

\* main.rs:451-452
VoteLock(task) ==
    /\ pc[task].at = "lock"
    /\ Lock(task)
    /\ Goto(task, [pc[task] EXCEPT !.at = "status", !.seen = elections[Task.election]])
    /\ UNCHANGED <<elections, db, now, tokens, hist, last>>

\* receive_vote, election.rs:196-198
VoteStatus(task) ==
    /\ pc[task].at = "status"
    /\ IF elections[Task.election].status # InProgress
       THEN Goto(task, [pc[task] EXCEPT !.at = "unlock", !.res = ErrNotInProgress])
       ELSE Goto(task, [pc[task] EXCEPT !.at = "put"])
    /\ UNCHANGED <<elections, db, now, tokens, hist, last, elections_guard>>

\* receive_vote, election.rs:200-203: used_tokens.insert looks h_n up; a
\* vote whose h_n is there is refused
VoteFind(task) ==
    /\ pc[task].at = "put"
    /\ IF FromBytesBE(Task.h_n) \in elections[Task.election].used_tokens
       THEN Goto(task, [pc[task] EXCEPT !.at = "unlock", !.found = TRUE,
                                        !.res = ErrDuplicate])
       ELSE Goto(task, [pc[task] EXCEPT !.at = "push"])
    /\ UNCHANGED <<elections, db, now, tokens, hist, last, elections_guard>>

\* receive_vote, election.rs:200-207: insert adds h_n, votes.push(vote)
VotePush(task) ==
    /\ pc[task].at = "push"
    /\ elections' = [elections EXCEPT
                        ![Task.election].used_tokens = @ \cup {FromBytesBE(Task.h_n)},
                        ![Task.election].votes = Append(@, Task.vote)]
    /\ hist' = [hist EXCEPT ![Task.election].accepted = @ \cup {FromBytesBE(Task.h_n)}]
    /\ Goto(task, [pc[task] EXCEPT !.at = "save", !.res = Ok])
    /\ UNCHANGED <<db, now, tokens, last, elections_guard>>

\* main.rs:463-475: save_used_token_to_db, then tally, the guard still alive
VoteSave(task) ==
    /\ pc[task].at = "save"
    /\ db' = SaveUsedTokenToDb(db, elections[Task.election], FromBytesBE(Task.h_n))
    /\ Goto(task, [pc[task] EXCEPT !.at = "unlock",
                                   !.keep = JsonResults(elections[Task.election])])
    /\ UNCHANGED <<elections, now, tokens, hist, last, elections_guard>>

\* main.rs:523-572: update_vote_counts and the tally event
VotePublish(task) ==
    /\ pc[task].at = "publish"
    /\ db' = UpdateVoteCounts(db, Task.election, pc[task].keep)
    /\ Goto(task, [pc[task] EXCEPT !.at = "done"])
    /\ UNCHANGED <<elections, now, tokens, hist, last, elections_guard>>

\* Status checker, main.rs:211-214: the interval fires and the time is read
CheckerRead(task) ==
    /\ pc[task].at = "start"
    /\ Goto(task, [StartPc("tick") EXCEPT !.at = "lock", !.res = now])
    /\ UNCHANGED <<elections, db, now, tokens, hist, last, elections_guard>>

\* main.rs:217-218
CheckerLock(task) ==
    /\ pc[task].op = "tick"
    /\ pc[task].at = "lock"
    /\ Lock(task)
    /\ Goto(task, [pc[task] EXCEPT !.at = "update", !.seen = elections[Task.election]])
    /\ UNCHANGED <<elections, db, now, tokens, hist, last>>

\* main.rs:219-228: update_status_based_on_time on every election
CheckerUpdate(task) ==
    LET r == UpdateStatusBasedOnTime(elections[Task.election], pc[task].res)
    IN  /\ pc[task].at = "update"
        /\ elections' = [elections EXCEPT ![Task.election] = r.el]
        /\ Goto(task, [pc[task] EXCEPT !.at = "unlock", !.found = r.changed,
                                       !.keep = r.el])
        /\ UNCHANGED <<db, now, tokens, hist, last, elections_guard>>

\* main.rs:231-254: upsert and publish the changed election, then wait for
\* the next tick
CheckerPersist(task) ==
    /\ pc[task].op = "tick"
    /\ pc[task].at = "persist"
    /\ db' = PersistAndPublish(db, <<pc[task].keep>>)
    /\ Goto(task, [pc[task] EXCEPT !.at = "start"])
    /\ UNCHANGED <<elections, now, tokens, hist, last, elections_guard>>

\* cancel_election, admin.rs:618-619
CancelLock(task) ==
    /\ pc[task].at = "start"
    /\ Lock(task)
    /\ Goto(task, [pc[task] EXCEPT !.op = "cancel", !.at = "check",
                                   !.seen = elections[Task.election]])
    /\ UNCHANGED <<elections, db, now, tokens, hist, last>>

\* cancel_election, admin.rs:631-637
CancelCheck(task) ==
    /\ pc[task].at = "check"
    /\ IF elections[Task.election].status = Canceled
       THEN Goto(task, [pc[task] EXCEPT !.at = "unlock", !.res = "already canceled"])
       ELSE Goto(task, [pc[task] EXCEPT !.at = "set"])
    /\ UNCHANGED <<elections, db, now, tokens, hist, last, elections_guard>>

\* cancel_election, admin.rs:639-643
CancelSet(task) ==
    /\ pc[task].at = "set"
    /\ elections' = [elections EXCEPT ![Task.election].status = Canceled]
    /\ Goto(task, [pc[task] EXCEPT !.at = "unlock", !.res = Ok,
                                   !.keep = elections'[Task.election]])
    /\ UNCHANGED <<db, now, tokens, hist, last, elections_guard>>

\* cancel_election, admin.rs:646-661: upsert, publish (which upserts again)
CancelPersist(task) ==
    /\ pc[task].op = "cancel"
    /\ pc[task].at = "persist"
    /\ db' = UpsertElection(UpsertElection(db, pc[task].keep), pc[task].keep)
    /\ Goto(task, [pc[task] EXCEPT !.at = "done"])
    /\ UNCHANGED <<elections, now, tokens, hist, last, elections_guard>>

\* add_voter, admin.rs:205-206: the guard of the existence check
VoterLock(task) ==
    /\ pc[task].at = "start"
    /\ Lock(task)
    /\ Goto(task, [pc[task] EXCEPT !.op = "add_voter", !.at = "exists"])
    /\ UNCHANGED <<elections, db, now, tokens, hist, last>>

\* add_voter, admin.rs:207-214: contains_key, and the guard is dropped
VoterExists(task) ==
    /\ pc[task].at = "exists"
    /\ elections_guard' = NoTask
    /\ Goto(task, [pc[task] EXCEPT
                      !.at = IF Task.election \in DOMAIN elections THEN "row" ELSE "done"])
    /\ UNCHANGED <<elections, db, now, tokens, hist, last>>

\* add_voter, admin.rs:217-221: save_election_voters, no guard alive
VoterSave(task) ==
    /\ pc[task].at = "row"
    /\ db' = SaveElectionVoters(db, Task.election, {Task.voter})
    /\ Goto(task, [pc[task] EXCEPT !.at = "lock"])
    /\ UNCHANGED <<elections, now, tokens, hist, last, elections_guard>>

\* add_voter, admin.rs:224-225: the guard of the registration
VoterLockAgain(task) ==
    /\ pc[task].op = "add_voter"
    /\ pc[task].at = "lock"
    /\ Lock(task)
    /\ Goto(task, [pc[task] EXCEPT !.at = "register", !.seen = elections[Task.election]])
    /\ UNCHANGED <<elections, db, now, tokens, hist, last>>

\* add_voter, admin.rs:226-227: register_voter; found says whether the key
\* was put into authorized_voters by this call
VoterRegister(task) ==
    LET election == RegisterVoter(elections[Task.election], Task.voter)
    IN  /\ pc[task].at = "register"
        /\ elections' = [elections EXCEPT ![Task.election] = election]
        /\ Goto(task, [pc[task] EXCEPT !.at = "unlock", !.res = "()",
                                       !.found = election # elections[Task.election]])
        /\ UNCHANGED <<db, now, tokens, hist, last, elections_guard>>

\* add_candidate, admin.rs:390-391
CandidateLock(task) ==
    /\ pc[task].at = "start"
    /\ Lock(task)
    /\ Goto(task, [pc[task] EXCEPT !.op = "add_candidate", !.at = "dup",
                                   !.seen = elections[Task.election]])
    /\ UNCHANGED <<elections, db, now, tokens, hist, last>>

\* add_candidate, admin.rs:404-413: is the candidate id in the list
CandidateCheck(task) ==
    /\ pc[task].at = "dup"
    /\ IF \E i \in 1..Len(elections[Task.election].candidates) :
             elections[Task.election].candidates[i].id = Task.candidate.id
       THEN Goto(task, [pc[task] EXCEPT !.at = "unlock", !.found = TRUE,
                                        !.res = "Candidate ID already exists"])
       ELSE Goto(task, [pc[task] EXCEPT !.at = "append"])
    /\ UNCHANGED <<elections, db, now, tokens, hist, last, elections_guard>>

\* add_candidate, admin.rs:416-419: push and clone
CandidatePush(task) ==
    /\ pc[task].at = "append"
    /\ elections' = [elections EXCEPT ![Task.election].candidates = Append(@, Task.candidate)]
    /\ Goto(task, [pc[task] EXCEPT !.at = "unlock", !.res = Ok,
                                   !.keep = elections'[Task.election]])
    /\ UNCHANGED <<db, now, tokens, hist, last, elections_guard>>

\* add_candidate, admin.rs:422-437: upsert_election
CandidatePersist(task) ==
    /\ pc[task].op = "add_candidate"
    /\ pc[task].at = "persist"
    /\ db' = UpsertElection(db, pc[task].keep)
    /\ Goto(task, [pc[task] EXCEPT !.at = "done"])
    /\ UNCHANGED <<elections, now, tokens, hist, last, elections_guard>>

\* The end of a critical section: the guard is dropped (main.rs:229, 354,
\* 512; admin.rs:239, 420, 644).  A token request and an add_voter are
\* then done, as is a refused vote, cancel or add_candidate; the others go
\* on to their store writes and events, the checker only if the status
\* changed.
Unlock(task) ==
    LET op == pc[task].op
        more == IF op = "tick" THEN pc[task].found
                ELSE op \in {"vote", "cancel", "add_candidate"} /\ pc[task].res = Ok
    IN  /\ pc[task].at = "unlock"
        /\ elections_guard' = NoTask
        /\ Goto(task, [pc[task] EXCEPT
                          !.at = IF more THEN (IF op = "vote" THEN "publish" ELSE "persist")
                                 ELSE IF op = "tick" THEN "start" ELSE "done"])
        /\ UNCHANGED <<elections, db, now, tokens, hist, last>>

\* The wall clock of the tasks
TaskClock ==
    /\ now < MaxTime
    /\ now' = now + 1
    /\ UNCHANGED <<elections, db, tokens, hist, last, elections_guard, pc>>

NextMutex ==
    \/ TaskClock
    \/ \E task \in MutexTasks : Unlock(task)
    \/ \E task \in TokenTasks :
          \/ TokenLock(task)
          \/ TokenFind(task)
          \/ TokenErase(task)
          \/ TokenSign(task)
    \/ \E task \in VoteTasks :
          \/ VoteVerify(task)
          \/ VoteLock(task)
          \/ VoteStatus(task)
          \/ VoteFind(task)
          \/ VotePush(task)
          \/ VoteSave(task)
          \/ VotePublish(task)
    \/ \E task \in {"checker"} :
          \/ CheckerRead(task)
          \/ CheckerLock(task)
          \/ CheckerUpdate(task)
          \/ CheckerPersist(task)
    \/ \E task \in {"admin"} :
          \/ CancelLock(task)
          \/ CancelCheck(task)
          \/ CancelSet(task)
          \/ CancelPersist(task)
          \/ VoterLock(task)
          \/ VoterExists(task)
          \/ VoterSave(task)
          \/ VoterLockAgain(task)
          \/ VoterRegister(task)
          \/ CandidateLock(task)
          \/ CandidateCheck(task)
          \/ CandidatePush(task)
          \/ CandidatePersist(task)

SpecMutex == InitMutex /\ [][NextMutex]_vars

----------------------------------------------------------------------------
(* The store refusing writes.  One election with one registered voter.     *)
(* Until the clock reaches MaxTime a write to the store may fail: the      *)
(* handler logs the error and goes on (main.rs:234-240, 464-471, 548-552). *)
(* From MaxTime on every write succeeds.  The status checker keeps firing  *)
(* and the clock keeps moving.                                             *)

InitStore ==
    \E start_time \in {0, 1} :
       LET election == RegisterVoter(ElectionNew("a1", "Board", <<[id |-> 1, name |-> "Alice"]>>,
                                                 start_time, 1, EcPubKey),
                                     ToHex("k1"))
       IN  /\ elections = "a1" :> election
           /\ db = SaveElectionVoters(UpsertElection(EmptyDb, election), "a1", {ToHex("k1")})
           /\ now = 0
           /\ tokens = {}
           /\ hist = [id \in ElectionIds |->
                        IF id = "a1" THEN [EmptyHist EXCEPT !.registered = {"k1"}]
                        ELSE EmptyHist]
           /\ last = Idle("start")
           /\ elections_guard = NoTask
           /\ pc = <<>>

\* One tick whose upsert_election calls all fail (main.rs:234-240); the
\* event of publish_election_event is sent before its own upsert fails
TickStoreDown(order) ==
    LET updated == [id \in DOMAIN elections |->
                        UpdateStatusBasedOnTime(elections[id], now)]
        changed == SelectSeq(order, LAMBDA id : updated[id].changed)
    IN  /\ now < MaxTime
        /\ changed # <<>>
        /\ elections' = [id \in DOMAIN elections |-> updated[id].el]
        /\ last' = Outcome("tick", [current_time |-> now],
                           [id \in DOMAIN elections |-> updated[id].changed],
                           TRUE,
                           [i \in DOMAIN changed |-> ElectionEvent(updated[changed[i]].el)])
        /\ UNCHANGED <<db, now, tokens, hist, elections_guard, pc>>

\* A vote that is accepted while save_used_token_to_db and
\* update_vote_counts fail (main.rs:464-471, 548-552)
VoteStoreDown(election_id, h_n_bytes, token, vote) ==
    LET h_n == FromBytesBE(h_n_bytes)
        r == VoteSection(elections, election_id, <<>>, h_n, vote)
    IN  /\ now < MaxTime
        /\ Verify(token, h_n_bytes)
        /\ r.by # NoId
        /\ elections' = r.map
        /\ hist' = [hist EXCEPT ![r.by].accepted = @ \cup {h_n}]
        /\ last' = Outcome("vote",
                           [election_id |-> election_id, h_n_bytes |-> h_n_bytes,
                            token |-> token, vote |-> vote],
                           r.calls, TRUE, <<TallyEvent(r.by, JsonResults(r.map[r.by]))>>)
        /\ UNCHANGED <<db, now, tokens, elections_guard, pc>>

NextStore ==
    \/ AdvanceClock
    \/ Tick
    \/ \E order \in Orders(DOMAIN elections) : TickStoreDown(order)
    \/ TokenRequest("m1", "k1", "a1", [wf |-> TRUE, hn |-> <<1>>], <<>>)
    \/ \E token \in Presentable({<<1>>}) :
          \/ Vote("a1", <<1>>, token, 1, <<>>)
          \/ VoteStoreDown("a1", <<1>>, token, 1)
    \/ CancelElection("a1")

SpecStore == InitStore /\ [][NextStore]_vars /\ WF_vars(AdvanceClock) /\ WF_vars(Tick)

----------------------------------------------------------------------------
(* The blind signature flow as test_blind_signature_flow runs it, with the *)
(* arithmetic of blind_rsa_signatures on a small key: blind multiplies the *)
(* encoded message by r^e, blind_sign raises to d, finalize multiplies by  *)
(* the inverse of r and checks the result, verify raises to e and compares *)
(* with the encoded message.                                               *)

\* The key pair of load_keys: modulus 3 * 11, e * d = 1 mod 20
EcRsaKey == [n |-> 33, e |-> 3, d |-> 7]

RECURSIVE ModExp(_, _, _)
\* base^exponent mod n
ModExp(base, exponent, n) ==
    IF exponent = 0 THEN 1 % n
    ELSE (base * ModExp(base, exponent - 1, n)) % n

\* Sha256::digest(nonce.to_bytes_be()): a digest of one byte
Sha256(nonce) == <<(nonce * 167 + 13) % 256>>

\* The encoding of a message under its randomizer as a number below the
\* modulus (the hash of msg_randomizer || msg, padded)
Encode(msg_randomizer, msg) ==
    (FromBytesBE(msg_randomizer \o msg) * 31 + 7) % EcRsaKey.n

\* PublicKey::blind(rng, msg, true, options); r and msg_randomizer are what
\* rng gave.  secret is the inverse of r.
Blind(r, msg_randomizer, msg) ==
    [blind_msg |-> (Encode(msg_randomizer, msg) * ModExp(r, EcRsaKey.e, EcRsaKey.n))
                      % EcRsaKey.n,
     secret |-> CHOOSE inv \in 1..(EcRsaKey.n - 1) : (r * inv) % EcRsaKey.n = 1,
     msg_randomizer |-> msg_randomizer]

\* SecretKey::blind_sign on the arithmetic
RsaBlindSign(blind_msg) ==
    IF blind_msg \in 0..(EcRsaKey.n - 1)
    THEN [ok |-> TRUE, sig |-> ModExp(blind_msg, EcRsaKey.d, EcRsaKey.n)]
    ELSE [ok |-> FALSE, sig |-> 0]

\* Signature::verify(pk, msg_randomizer, msg, options) on the arithmetic
RsaVerify(token, msg_randomizer, msg) ==
    ModExp(token, EcRsaKey.e, EcRsaKey.n) = Encode(msg_randomizer, msg)

\* A finalize that hands the blind signature back as the token
FinalizeStillBlind(blind_sig, secret, msg_randomizer, msg) ==
    [ok |-> RsaVerify(blind_sig, msg_randomizer, msg), token |-> blind_sig]

\* PublicKey::finalize: unblind, then verify the token before returning it
Finalize(blind_sig, secret, msg_randomizer, msg) ==
    LET token == (blind_sig * secret) % EcRsaKey.n
    IN  [ok |-> RsaVerify(token, msg_randomizer, msg), token |-> token]

\* test_blind_signature_flow with the nonce, the randomizer and the
\* blinding factor that the random number generators gave
TestBlindSignatureFlow(nonce, msg_randomizer, r) ==
    LET h_n_bytes == Sha256(nonce)
        blinding_result == Blind(r, msg_randomizer, h_n_bytes)
        blind_sig == RsaBlindSign(blinding_result.blind_msg)
        token == Finalize(blind_sig.sig, blinding_result.secret,
                          blinding_result.msg_randomizer, h_n_bytes)
    IN  /\ last' = Outcome("blind_signature_flow",
                           [nonce |-> nonce, h_n_bytes |-> h_n_bytes, r |-> r,
                            encoded |-> Encode(msg_randomizer, h_n_bytes)],
                           [blind |-> blinding_result, blind_sign |-> blind_sig,
                            finalize |-> token],
                           /\ blind_sig.ok
                           /\ token.ok
                           /\ RsaVerify(token.token, blinding_result.msg_randomizer,
                                        h_n_bytes),
                           <<>>)
        /\ UNCHANGED <<elections, db, now, tokens, hist, elections_guard, pc>>

\* Four nonces, three randomizers, every blinding factor that has an inverse
NextBlind ==
    \E nonce \in {0, 1, 2, 200}, msg_randomizer \in {<<0>>, <<1>>, <<9>>},
       r \in {r \in 1..(EcRsaKey.n - 1) :
                 \E inv \in 1..(EcRsaKey.n - 1) : (r * inv) % EcRsaKey.n = 1} :
       TestBlindSignatureFlow(nonce, msg_randomizer, r)

SpecBlind == Init /\ [][NextBlind]_vars

----------------------------------------------------------------------------
(* nanoid!(4, &hex) draws an id that is in use.  One election and one      *)
(* voter as in the system above, and AddElection requests for which        *)
(* Election::new draws the id of the election already in the map           *)
(* (election.rs:55-60).                                                    *)

NextCollide ==
    \/ Environment([ids |-> {"a1"}, names |-> {"Board"}, voter_ids |-> {"a1"},
                    admin_keys |-> {ToHex("k1")}, senders |-> {"k1"},
                    hns |-> {<<1>>}, vote_values |-> {1},
                    candidates |-> CandidateLists, message_ids |-> {"m1"}])
    \/ \E id \in DOMAIN elections, start_time \in StartTimes, duration \in Durations :
          AddElection(id, "Board", start_time, duration, <<[id |-> 1, name |-> "Alice"]>>)
    \/ Restart

SpecCollide == Init /\ [][NextCollide]_vars

\* Two elections under the one EC key, the same voter registered in both
InitLegacy ==
    \E start_time \in {0, 1} :
       LET Made(id) == RegisterVoter(ElectionNew(id, "Board", <<[id |-> 1, name |-> "Alice"]>>,
                                                 start_time, 1, EcPubKey),
                                     ToHex("k1"))
       IN  /\ elections = [id \in ElectionIds |-> Made(id)]
           /\ db = SaveElectionVoters(
                      SaveElectionVoters(
                         UpsertElection(UpsertElection(EmptyDb, Made("a1")), Made("b2")),
                         "a1", {ToHex("k1")}),
                      "b2", {ToHex("k1")})
           /\ now = 0
           /\ tokens = {}
           /\ hist = [id \in ElectionIds |-> [EmptyHist EXCEPT !.registered = {"k1"}]]
           /\ last = Idle("start")
           /\ elections_guard = NoTask
           /\ pc = <<>>

\* Token requests with and without election_id, well formed or not, then
\* the votes on the tokens they gave
NextLegacy ==
    \/ AdvanceClock
    \/ Tick
    \/ \E election_id \in ElectionIds \cup {NoId},
          blinded_h_n \in {[wf |-> TRUE, hn |-> <<1>>], Malformed} :
          \E order \in LegacyOrders(election_id) :
             TokenRequest("m1", "k1", election_id, blinded_h_n, order)
    \/ \E election_id \in ElectionIds \cup {NoId}, token \in Presentable({<<1>>}) :
          \E order \in LegacyOrders(election_id) :
             Vote(election_id, <<1>>, token, 1, order)

SpecLegacy == InitLegacy /\ [][NextLegacy]_vars

----------------------------------------------------------------------------
(* Votes on both sides of a restart.  One election whose two voters have   *)
(* each been issued a token while it was Open; after that the clock, the   *)
(* status checker, the two votes and restarts of the process.              *)

InitRecount ==
    LET election == ElectionNew("a1", "Board", <<[id |-> 1, name |-> "Alice"]>>, 1, 1, EcPubKey)
    IN  /\ elections = "a1" :> election
        /\ db = SaveElectionVoters(UpsertElection(EmptyDb, election), "a1",
                                   {ToHex("k1"), ToHex("k2")})
        /\ now = 0
        /\ tokens = {<<1>>, <<2>>}
        /\ hist = [id \in ElectionIds |->
                     IF id = "a1"
                     THEN [EmptyHist EXCEPT !.registered = {"k1", "k2"},
                                            !.issued = [k \in VoterKeys |-> 1],
                                            !.signed = {<<1>>, <<2>>}]
                     ELSE EmptyHist]
        /\ last = Idle("start")
        /\ elections_guard = NoTask
        /\ pc = <<>>

NextRecount ==
    \/ AdvanceClock
    \/ Tick
    \/ \E h_n_bytes \in {<<1>>, <<2>>}, election_id \in {"a1", NoId} :
          \E order \in LegacyOrders(election_id) :
             Vote(election_id, h_n_bytes, [signer |-> EcKey, msg |-> h_n_bytes], 1, order)
    \/ Restart

SpecRecount == InitRecount /\ [][NextRecount]_vars

----------------------------------------------------------------------------
(* Properties *)

RECURSIVE SumIssued(_, _)
SumIssued(id, keys) ==
    IF keys = {} THEN 0
    ELSE LET k == CHOOSE x \in keys : TRUE
         IN  hist[id].issued[k] + SumIssued(id, keys \ {k})

\* The number of successful issue_token calls on the election under id
TokensIssued(id) == SumIssued(id, VoterKeys)

\* C1: in every election, issue_token succeeds at most once for each voter.
C1_SingleToken ==
    \A id \in DOMAIN elections :
        \A k \in VoterKeys : hist[id].issued[k] <= 1

\* C2: in every election the number of votes is at most the number of tokens
\* issue_token issued on that election.
C2_VotesWithinIssued ==
    \A id \in DOMAIN elections :
        Len(elections[id].votes) <= TokensIssued(id)

\* A ballot whose token is a signature of the EC key on the h_n it carries
Genuine(req) == req.token.signer = EcKey /\ req.token.msg = req.h_n_bytes

\* C3: used_tokens and votes of an election change only in the handling of a
\* vote message whose token is an EC signature on its h_n, by that h_n and
\* that vote; a vote message whose token is not such a signature changes no
\* election and no table and sends no event.
C3_VerifiedBeforeAdmission ==
    [][/\ \A id \in DOMAIN elections :
             (\/ elections'[id].used_tokens # elections[id].used_tokens
              \/ elections'[id].votes # elections[id].votes)
             => /\ last'.op = "vote"
                /\ Genuine(last'.req)
                /\ elections'[id].used_tokens =
                      elections[id].used_tokens \cup {FromBytesBE(last'.req.h_n_bytes)}
                /\ elections'[id].votes = Append(elections[id].votes, last'.req.vote)
       /\ (last'.op = "vote" /\ ~Genuine(last'.req))
             => /\ UNCHANGED <<elections, db>>
                /\ last'.sent = <<>>
                /\ ~last'.ok]_vars

\* C3 witness: a ballot with a token of another key was dropped while an
\* election was in progress that had not seen its h_n.
C3_Witness ==
    /\ last.op = "vote"
    /\ last.req.token.signer # EcKey
    /\ \E id \in DOMAIN elections :
          /\ elections[id].status = InProgress
          /\ FromBytesBE(last.req.h_n_bytes) \notin elections[id].used_tokens

\* C4: receive_vote returns Ok only on an election in progress; on any other
\* status it returns the not-in-progress error, also for an h_n already in
\* used_tokens, and leaves used_tokens and votes as they were.
C4_VoteOnlyInProgress ==
    [][last'.op = "vote" =>
          \A id \in DOMAIN last'.calls :
             /\ last'.calls[id] = Ok => elections[id].status = InProgress
             /\ elections[id].status # InProgress =>
                   /\ last'.calls[id] = ErrNotInProgress
                   /\ elections'[id].used_tokens = elections[id].used_tokens
                   /\ elections'[id].votes = elections[id].votes]_vars

\* C4 witness: a ballot with a genuine token and an h_n already used was
\* refused as not in progress by a finished election.
C4_Witness ==
    /\ last.op = "vote"
    /\ \E id \in DOMAIN last.calls :
          /\ last.calls[id] = ErrNotInProgress
          /\ elections[id].status = Finished
          /\ FromBytesBE(last.req.h_n_bytes) \in elections[id].used_tokens

\* C5: issue_token returns a signature only on an election that is Open or
\* InProgress.
C5_IssueOnlyWhileOpenOrInProgress ==
    [][last'.op = "token" =>
          \A id \in DOMAIN last'.calls :
             last'.calls[id] = Ok => elections[id].status \in {Open, InProgress}]_vars

\* C6: in every election the number of votes, the number of used tokens and
\* the number of distinct h_n that receive_vote accepted are the same.
C6_VotesMatchUsedTokens ==
    \A id \in DOMAIN elections :
        /\ Len(elections[id].votes) = Cardinality(elections[id].used_tokens)
        /\ Cardinality(elections[id].used_tokens) = Cardinality(hist[id].accepted)
        /\ elections[id].used_tokens = hist[id].accepted

\* C6 witness: two votes are in, and a ballot was just refused as a duplicate.
C6_Witness ==
    /\ last.op = "vote"
    /\ \E id \in DOMAIN last.calls :
          /\ last.calls[id] = ErrDuplicate
          /\ Len(elections[id].votes) = 2

\* C7: receive_vote on an election in progress with an h_n already in
\* used_tokens returns the duplicate error and leaves votes and used_tokens
\* as they were.
C7_DuplicateRejected ==
    [][last'.op = "vote" =>
          \A id \in DOMAIN last'.calls :
             (/\ elections[id].status = InProgress
              /\ FromBytesBE(last'.req.h_n_bytes) \in elections[id].used_tokens)
             => /\ last'.calls[id] = ErrDuplicate
                /\ elections'[id].votes = elections[id].votes
                /\ elections'[id].used_tokens = elections[id].used_tokens]_vars

\* C7 witness: a second ballot with the same h_n and another candidate was
\* refused as a duplicate.
C7_Witness ==
    /\ last.op = "vote"
    /\ \E id \in DOMAIN last.calls :
          /\ last.calls[id] = ErrDuplicate
          /\ elections[id].votes = <<1>>
          /\ last.req.vote = 2

\* C8: issue_token for a well-formed key that is not in authorized_voters
\* returns the unauthorized error and leaves the election as it was; no
\* signature is made and no reply is sent for a request naming that election.
C8_UnauthorizedRefused ==
    [][last'.op = "token" =>
          \A id \in DOMAIN last'.calls :
             (/\ NormalizePk(last'.req.voter_pk).ok
              /\ NormalizePk(last'.req.voter_pk).hex \notin elections[id].authorized_voters)
             => /\ last'.calls[id] = ErrUnauthorized
                /\ elections'[id] = elections[id]
                /\ last'.req.election_id = id =>
                      (tokens' = tokens /\ last'.sent = <<>> /\ ~last'.ok)]_vars

\* C8 witness: a voter never registered was refused while another voter was
\* authorized.
C8_Witness ==
    /\ last.op = "token"
    /\ last.req.voter_pk = ToHex("k2")
    /\ \E id \in DOMAIN last.calls :
          /\ last.calls[id] = ErrUnauthorized
          /\ elections[id].authorized_voters = {ToHex("k1")}

\* C9: a signing failure in issue_token leaves the voter removed from
\* authorized_voters, and every later token request of that voter on that
\* election is refused as unauthorized.
C9_BurnedStaysUnauthorized ==
    [][last'.op = "token" =>
          \A id \in DOMAIN last'.calls :
             /\ last'.calls[id] = ErrSigning =>
                   /\ last'.req.voter_pk \in elections[id].authorized_voters
                   /\ last'.req.voter_pk \notin elections'[id].authorized_voters
                   /\ ~last'.ok
             /\ (\E k \in hist[id].burned : last'.req.voter_pk = ToHex(k)) =>
                   last'.calls[id] = ErrUnauthorized]_vars

\* A status change the lifecycle allows
Forward(old, new) ==
    \/ new = old
    \/ old = Open /\ new \in {InProgress, Finished}
    \/ old = InProgress /\ new = Finished
    \/ new = Canceled

\* C10: the status of an election changes only in a status tick or a
\* cancellation, and only forward: Open to InProgress or Finished,
\* InProgress to Finished, anything to Canceled.
C10_StatusNeverRegresses ==
    [][\A id \in DOMAIN elections :
          /\ Forward(elections[id].status, elections'[id].status)
          /\ elections'[id].status # elections[id].status =>
                last'.op \in {"tick", "cancel"}]_vars

\* C10 witness: a tick has just moved an election to Finished.
C10_Witness ==
    /\ last.op = "tick"
    /\ \E id \in DOMAIN last.calls :
          last.calls[id] /\ elections[id].status = Finished

\* C11: an election whose status is Canceled keeps that status in every
\* step; a status tick reports no change for it, whatever the time, and a
\* cancellation of it reports failure and changes no election.
C11_CanceledIsFinal ==
    [][\A id \in DOMAIN elections :
          elections[id].status = Canceled =>
             /\ elections'[id].status = Canceled
             /\ last'.op = "tick" => ~last'.calls[id]
             /\ (last'.op = "cancel" /\ last'.req.election_id = id) =>
                   (~last'.ok /\ UNCHANGED <<elections, db>> /\ last'.sent = <<>>)]_vars

\* C11 witness: a tick at or after end_time has just left a canceled
\* election as it was.
C11_Witness ==
    /\ last.op = "tick"
    /\ \E id \in DOMAIN last.calls :
          /\ elections[id].status = Canceled
          /\ last.req.current_time >= elections[id].end_time
          /\ ~last.calls[id]

\* The status update_status_based_on_time is to leave an election with
Expected(el, current_time) ==
    IF current_time >= el.end_time /\ el.status \in {Open, InProgress} THEN Finished
    ELSE IF current_time >= el.start_time /\ el.status = Open THEN InProgress
    ELSE el.status

\* C12: update_status_based_on_time sets the status to Finished exactly when
\* now >= end_time and the status is Open or InProgress, otherwise to
\* InProgress exactly when now >= start_time and the status is Open,
\* otherwise leaves it; it changes nothing else and returns whether the
\* status changed.
C12_UpdateStatus ==
    [][last'.op = "update_status" =>
          \A id \in DOMAIN last'.calls :
             LET el == elections[id]
                 expected == Expected(el, last'.req.current_time)
             IN  /\ elections'[id] = [el EXCEPT !.status = expected]
                 /\ last'.calls[id] = (expected # el.status)]_vars

\* C12 witness: a call after end_time has just left a finished election
\* Finished and returned false.
C12_Witness ==
    /\ last.op = "update_status"
    /\ \E id \in DOMAIN last.calls :
          /\ elections[id].status = Finished
          /\ last.req.current_time > elections[id].end_time
          /\ ~last.calls[id]

\* The election under id exists and is not canceled
Running(id) == id \in DOMAIN elections /\ elections[id].status # Canceled

\* The election under id has the status, or was canceled
Reached(id, status) ==
    id \in DOMAIN elections /\ elections[id].status \in {status, Canceled}

\* C13: with the tick and the clock fair, an election that is not canceled
\* and whose start_time has come leaves Open (for InProgress, or for
\* Finished when end_time has come too) unless it is canceled; one whose
\* end_time has come becomes Finished unless it is canceled; and a finished
\* election stays Finished unless it is canceled.
C13_EventuallyFinished ==
    /\ \A id \in ElectionIds :
          (Running(id) /\ now >= elections[id].start_time)
             ~> (Reached(id, InProgress) \/ Reached(id, Finished))
    /\ \A id \in ElectionIds :
          (Running(id) /\ now >= elections[id].end_time) ~> Reached(id, Finished)
    /\ [][\A id \in DOMAIN elections :
             elections[id].status = Finished =>
                elections'[id].status \in {Finished, Canceled}]_vars

\* C13 as stated: an open election whose start_time has come becomes
\* InProgress unless it is canceled.
C13_EventuallyInProgress ==
    \A id \in ElectionIds :
       (id \in DOMAIN elections /\ elections[id].status = Open
           /\ now >= elections[id].start_time) ~> Reached(id, InProgress)

\* C13 witness: a tick at or after end_time has just changed a status and
\* both elections are finished.
C13_Witness ==
    /\ last.op = "tick"
    /\ DOMAIN elections = ElectionIds
    /\ \E id \in DOMAIN elections : last.calls[id]
    /\ \A id \in DOMAIN elections :
          /\ elections[id].status = Finished
          /\ last.req.current_time >= elections[id].end_time

\* C14: a vote message handled at a time outside [start_time, end_time) of
\* an election is refused by it as not in progress and adds nothing to its
\* votes.
C14_VotesOnlyInsideWindow ==
    [][last'.op = "vote" =>
          \A id \in DOMAIN last'.calls :
             (now < elections[id].start_time \/ now >= elections[id].end_time)
             => /\ last'.calls[id] = ErrNotInProgress
                /\ elections'[id].votes = elections[id].votes]_vars

\* C15: a restart does not bring back into authorized_voters a voter whom
\* the election has issued a token and who was not authorized when the
\* process stopped.
C15_IssuedVoterStaysOut ==
    [][last'.op = "restart" =>
          \A id \in DOMAIN elections, k \in VoterKeys :
             (hist[id].issued[k] > 0 /\ ToHex(k) \notin elections[id].authorized_voters)
             => ToHex(k) \notin elections'[id].authorized_voters]_vars

\* C16: used_tokens of an election never loses an h_n, in any step, a
\* restart included; and an h_n that receive_vote once accepted in an
\* election is never accepted by it again: a later vote with it is refused,
\* as a duplicate whenever the election is in progress.
C16_UsedTokensPersist ==
    [][\A id \in DOMAIN elections :
          /\ id \in DOMAIN elections'
          /\ elections[id].used_tokens \subseteq elections'[id].used_tokens
          /\ hist[id].accepted \subseteq elections'[id].used_tokens
          /\ (/\ last'.op = "vote"
              /\ id \in DOMAIN last'.calls
              /\ FromBytesBE(last'.req.h_n_bytes) \in hist[id].accepted)
             => /\ last'.calls[id] # Ok
                /\ elections[id].status = InProgress => last'.calls[id] = ErrDuplicate]_vars

\* C16 witness: after a reload (the votes are gone, the used tokens are
\* back) a ballot with an h_n accepted before the restart was refused as a
\* duplicate.
C16_Witness ==
    /\ last.op = "vote"
    /\ \E id \in DOMAIN last.calls :
          /\ last.calls[id] = ErrDuplicate
          /\ elections[id].votes = <<>>
          /\ FromBytesBE(last.req.h_n_bytes) \in hist[id].accepted
          /\ FromBytesBE(last.req.h_n_bytes) >= 16

\* C17: the election from_database rebuilds from the stored rows has the
\* id, name, start_time, end_time, status, rsa_pub_key and candidate
\* sequence of the election in memory.
C17_ReloadRestoresElection ==
    \A id \in DOMAIN elections :
       /\ id \in DOMAIN LoadElectionsFromDatabase(db)
       /\ LET stored == LoadElectionsFromDatabase(db)[id]
              election == elections[id]
          IN  /\ stored.id = election.id
              /\ stored.name = election.name
              /\ stored.start_time = election.start_time
              /\ stored.end_time = election.end_time
              /\ stored.status = election.status
              /\ stored.rsa_pub_key = election.rsa_pub_key
              /\ stored.candidates = election.candidates

\* A string that is a voter's key, in hex or as an npub
WellFormed(voter_pk) == voter_pk.form \in {"hex", "npub"} /\ voter_pk.key \in VoterKeys

\* C18: authorized_voters holds hex keys only; registering a key on an open
\* election, in hex or as an npub, adds its hex form and nothing else, so
\* both forms and any repetition give the same one entry; and issue_token
\* for a key whose hex form is in the set succeeds with a well-formed
\* blinded message whichever form the request names.
C18_NpubAndHexAgree ==
    [][\A id \in DOMAIN elections :
          /\ \A v \in elections'[id].authorized_voters : v.form = "hex"
          /\ (/\ last'.op = "register_voter"
              /\ WellFormed(last'.req.voter_pk)
              /\ elections[id].status = Open)
             => elections'[id].authorized_voters =
                   elections[id].authorized_voters \cup {ToHex(last'.req.voter_pk.key)}
          /\ (/\ last'.op = "issue_token"
              /\ WellFormed(last'.req.voter_pk)
              /\ ToHex(last'.req.voter_pk.key) \in elections[id].authorized_voters
              /\ last'.req.blinded_h_n.wf)
             => /\ last'.calls[id] = Ok
                /\ last'.ok]_vars

\* C18 witness: a token request naming the voter by npub was signed, and
\* the other voter is in the set once, in hex.
C18_Witness ==
    /\ last.op = "issue_token"
    /\ last.req.voter_pk = ToBech32("k1")
    /\ last.calls["a1"] = Ok
    /\ elections["a1"].authorized_voters = {ToHex("k2")}

\* C20: register_voter leaves the election as it was when the status is not
\* Open, when the string is no key, or when the key is already in
\* authorized_voters; otherwise it adds the key's hex form to
\* authorized_voters and changes nothing else.
C20_RegisterOnlyWhileOpen ==
    [][last'.op = "register_voter" =>
          \A id \in DOMAIN last'.calls :
             LET el == elections[id]
                 voter_pk == last'.req.voter_pk
             IN  IF \/ el.status # Open
                    \/ ~WellFormed(voter_pk)
                    \/ ToHex(voter_pk.key) \in el.authorized_voters
                 THEN elections'[id] = el
                 ELSE elections'[id] =
                         [el EXCEPT !.authorized_voters = @ \cup {ToHex(voter_pk.key)}]]_vars

\* C20 witness: register_voter was just called with a well-formed key that
\* is not in the set, on an election in progress, and the set is empty.
C20_Witness ==
    /\ last.op = "register_voter"
    /\ last.req.voter_pk = ToHex("k2")
    /\ elections["a1"].status = InProgress
    /\ elections["a1"].authorized_voters = {}

\* C19: every voter key held for an election is in hex form: in
\* authorized_voters in memory, in the rows of election_voters, and in
\* authorized_voters as from_database rebuilds it.
C19_KeysAreHex ==
    /\ \A id \in DOMAIN elections :
          \A v \in elections[id].authorized_voters : v.form = "hex"
    /\ \A r \in db.election_voters : r.voter_pubkey.form = "hex"
    /\ \A id \in DOMAIN LoadElectionsFromDatabase(db) :
          \A v \in LoadElectionsFromDatabase(db)[id].authorized_voters : v.form = "hex"

RECURSIVE SumOver(_, _)
\* The sum of f over S
SumOver(f, S) ==
    IF S = {} THEN 0 ELSE LET x == CHOOSE x \in S : TRUE IN f[x] + SumOver(f, S \ {x})

\* The number of votes of el that carry candidate_id
VotesFor(el, candidate_id) ==
    Cardinality({k \in DOMAIN el.votes : el.votes[k] = candidate_id})

\* The ids of the candidates of el
CandidateIds(el) == {el.candidates[i].id : i \in DOMAIN el.candidates}

\* C21: the map tally() returns gives every candidate in it the number of
\* votes that carry the candidate's id, a candidate left out of it (and whose
\* id no earlier candidate has) received no vote, and the counts add up to
\* the number of votes that carry the id of some candidate: votes for an id
\* no candidate has are counted nowhere.
C21_TallyCounts ==
    last.op = "tally" =>
        \A id \in DOMAIN last.calls :
            LET el == elections[id]
                counts == last.calls[id]
            IN  /\ DOMAIN counts \subseteq DOMAIN el.candidates
                /\ \A i \in DOMAIN counts : counts[i] = VotesFor(el, el.candidates[i].id)
                /\ \A i \in DOMAIN el.candidates \ DOMAIN counts :
                      (\A j \in 1..(i - 1) : el.candidates[j].id # el.candidates[i].id)
                          => VotesFor(el, el.candidates[i].id) = 0
                /\ SumOver(counts, DOMAIN counts)
                      = Cardinality({k \in DOMAIN el.votes : el.votes[k] \in CandidateIds(el)})

\* C21 witness: a tally of three votes, two for one candidate and one for an
\* id no candidate has, in an election whose list is not in order of id
C21_Witness ==
    /\ last.op = "tally"
    /\ elections["a1"].candidates[1].id = 2
    /\ Len(elections["a1"].votes) = 3
    /\ 7 \in {elections["a1"].votes[k] : k \in DOMAIN elections["a1"].votes}
    /\ \E i \in DOMAIN last.calls["a1"] : last.calls["a1"][i] = 2

\* C22: the map tally() returns has an entry for every candidate of the
\* election, a candidate without votes having the entry 0.
C22_EveryCandidateInTally ==
    last.op = "tally" =>
        \A id \in DOMAIN last.calls :
            \A i \in DOMAIN elections[id].candidates :
                \E j \in DOMAIN last.calls[id] :
                    elections[id].candidates[j].id = elections[id].candidates[i].id

\* The pairs of candidate id and count for the candidates of el that have
\* at least one vote, counted from el.votes
CountsOf(el) ==
    {<<c, VotesFor(el, c)>> : c \in {c \in CandidateIds(el) : VotesFor(el, c) > 0}}

C25_DroppedEnvelopeChangesNothing ==
    [][(\/ last'.op = "drop"
        \/ /\ last'.op \in {"token", "vote"}
           /\ last'.req.election_id # NoId
           /\ last'.req.election_id \notin DOMAIN elections)
          => /\ elections' = elections
             /\ db' = db
             /\ tokens' = tokens
             /\ last'.calls = NoCalls
             /\ ~last'.ok
             /\ last'.sent = <<>>]_vars

\* C25 witness: a token request for an election that is not in the map has
\* just been dropped, sent by a voter whom another election would have
\* signed for
C25_Witness ==
    /\ last.op = "token"
    /\ last.req.election_id = "b2"
    /\ DOMAIN elections = {"a1"}
    /\ last.req.voter_pk \in elections["a1"].authorized_voters
    /\ last.req.blinded_h_n.wf
    /\ last.sent = <<>>

\* The status the store holds for the election under id
StoredStatus(d, id) == {r.status : r \in {r \in d.elections : r.id = id}}

RulesMet(req) ==
    /\ Len(req.name) \in 1..100
    /\ req.start_time # 0
    /\ req.duration # 0
    /\ Len(req.candidates) >= 1
    /\ \A i \in DOMAIN req.candidates :
          /\ req.candidates[i].id \in 1..255
          /\ Len(req.candidates[i].name) \in 1..50

\* C27: an AddElection request that breaks a rule is answered success=false
\* with an empty election_id and leaves the map and the store as they were;
\* a request that meets every rule adds exactly one election to the map and
\* the store, Open, without voters, used tokens or votes, with the start_time
\* of the request and an end_time later than its start_time.
C27_AddElectionValidated ==
    [][last'.op = "add_election" =>
          LET req == last'.req
          IN  IF ~RulesMet(req)
              THEN /\ ~last'.ok
                   /\ req.election_id = ""
                   /\ elections' = elections
                   /\ db' = db
              ELSE /\ last'.ok
                   /\ req.election_id \notin DOMAIN elections
                   /\ DOMAIN elections' = DOMAIN elections \cup {req.election_id}
                   /\ \A id \in DOMAIN elections : elections'[id] = elections[id]
                   /\ {r.id : r \in db'.elections}
                         = {r.id : r \in db.elections} \cup {req.election_id}
                   /\ LET el == elections'[req.election_id]
                      IN  /\ el.status = Open
                          /\ el.authorized_voters = {}
                          /\ el.used_tokens = {}
                          /\ el.votes = <<>>
                          /\ el.start_time = req.start_time
                          /\ U64Lt(el.start_time, el.end_time)]_vars

\* C28: in every election the ids of the candidates are pairwise distinct
\* and lie in 1..255.
C28_CandidateIdsDistinct ==
    \A id \in DOMAIN elections :
        LET candidates == elections[id].candidates
        IN  /\ \A i \in DOMAIN candidates : candidates[i].id \in 1..255
            /\ \A i, j \in DOMAIN candidates :
                  candidates[i].id = candidates[j].id => i = j

\* C29: every AddElection, AddCandidate or CancelElection request that
\* succeeds sends one kind 35000 event that carries the election as the
\* request left it.
C29_AdminMutationPublished ==
    [][(last'.op \in {"add_election", "add_candidate", "cancel"} /\ last'.ok)
          => last'.sent =
                <<[kind |-> 35000, eid |-> last'.req.election_id, to |-> NoPk,
                   body |-> AsJson(elections'[last'.req.election_id])]>>]_vars

\* The tasks whose guard is alive
Holders == {task \in MutexTasks : pc[task].at \in Inside}

\* What the critical section of `task`, now at its end, has done to the
\* election equals what the handler's call does in one piece to the election
\* the task saw when it took the guard
SectionAtomic(task) ==
    LET seen == pc[task].seen
        el == elections[Task.election]
        op == pc[task].op
    IN  CASE op = "token" ->
               LET r == IssueToken(seen, Task.voter, Task.blinded)
               IN  el = r.el /\ pc[task].res = r.res
          [] op = "vote" ->
               LET r == ReceiveVote(seen, FromBytesBE(Task.h_n), Task.vote)
               IN  el = r.el /\ pc[task].res = r.res
          [] op = "tick" ->
               LET r == UpdateStatusBasedOnTime(seen, pc[task].res)
               IN  el = r.el /\ pc[task].found = r.changed
          [] op = "cancel" ->
               IF seen.status = Canceled THEN el = seen /\ pc[task].res # Ok
               ELSE el = [seen EXCEPT !.status = Canceled] /\ pc[task].res = Ok
          [] op = "add_voter" -> el = RegisterVoter(seen, Task.voter)
          [] op = "add_candidate" ->
               IF \E i \in DOMAIN seen.candidates : seen.candidates[i].id = Task.candidate.id
               THEN el = seen /\ pc[task].res # Ok
               ELSE el = [seen EXCEPT !.candidates = Append(@, Task.candidate)]
                    /\ pc[task].res = Ok

\* How often the voter of the token requests was put into authorized_voters:
\* once before the tasks started, and once more if the add_voter did it
Registrations ==
    1 + Cardinality({task \in MutexTasks : pc[task].op = "add_voter" /\ pc[task].found})

\* C30: the election map changes only in a step of the task that holds the
\* guard, at most one task holds it, and a critical section leaves the
\* election as its call would in one piece.  So of two token requests of one
\* voter running at once at most one is signed for, unless the admin put the
\* voter back in between; and of two votes with one h_n at most one is
\* accepted - exactly one unless both were refused because the election was
\* not in progress.
C30_MutualExclusion ==
    /\ [](/\ Holders = IF elections_guard = NoTask THEN {} ELSE {elections_guard}
          /\ \A task \in Holders : pc[task].at = "unlock" => SectionAtomic(task)
          /\ Cardinality({task \in TokenTasks : pc[task].res = Ok}) <= Registrations
          /\ Cardinality({task \in VoteTasks : pc[task].res = Ok}) <= 1
          /\ Len(elections[Task.election].votes) <= 1
          /\ (\A task \in VoteTasks : pc[task].at = "done")
                => \/ \E task \in VoteTasks : pc[task].res = Ok
                   \/ \A task \in VoteTasks : pc[task].res = ErrNotInProgress)
    /\ [][elections' # elections =>
             /\ elections_guard # NoTask
             /\ elections_guard' = elections_guard
             /\ pc'[elections_guard].at # pc[elections_guard].at
             /\ \A task \in MutexTasks \ {elections_guard} : pc'[task] = pc[task]]_vars

\* C30 witness: both token requests and both votes have been handled, one
\* of each refused (not authorized any more, duplicate), and the admin's
\* cancel went through after the vote
C30_Witness ==
    /\ \A task \in MutexTasks \ {"checker"} : pc[task].at = "done"
    /\ {pc[task].res : task \in TokenTasks} = {Ok, ErrUnauthorized}
    /\ {pc[task].res : task \in VoteTasks} = {Ok, ErrDuplicate}
    /\ pc["admin"].op = "cancel"
    /\ pc["admin"].res = Ok
    /\ elections[Task.election].votes = <<Task.vote>>
    /\ elections[Task.election].status = Canceled

\* The store holds the status and the used tokens that every election of
\* the map has in memory
Persisted ==
    \A id \in DOMAIN elections :
        /\ StoredStatus(db, id) = {StatusString(elections[id].status)}
        /\ {ParseBytes16(token) : token \in LoadUsedTokens(db, id)} = elections[id].used_tokens

\* C31: once the store accepts every write again, the status and the used
\* tokens it holds eventually equal those in memory, the status checker
\* firing again and again.
C31_StoreCatchesUp == (now = MaxTime) ~> Persisted

\* C32: for every nonce, randomizer and blinding factor, the token that
\* finalize makes from the blind signature on the blinded h_n = SHA-256(nonce)
\* is returned without error and verifies under the EC public key against
\* h_n with the randomizer of the blinding.
C32_BlindSignatureRoundTrip ==
    last.op = "blind_signature_flow" =>
        /\ last.calls.blind_sign.ok
        /\ last.calls.finalize.ok
        /\ last.ok
        /\ RsaVerify(last.calls.finalize.token, last.calls.blind.msg_randomizer,
                     last.req.h_n_bytes)

\* C32 witness: a flow has run in which the blinded message differs from
\* the encoded message and the blind signature from the token, and the token
\* verified
C32_Witness ==
    /\ last.op = "blind_signature_flow"
    /\ last.req.r # 1
    /\ last.calls.blind.blind_msg # last.req.encoded
    /\ last.calls.blind_sign.sig # last.calls.finalize.token
    /\ last.ok

\* C33: when the status checker and a CancelElection have both finished
\* their store writes, the store holds the status the election has in
\* memory; a Canceled that was persisted is never overwritten.
C33_StoreFollowsMemory ==
    (/\ pc["admin"].op = "cancel"
     /\ pc["admin"].at = "done"
     /\ pc["checker"].at \in {"start", "lock"})
        => StoredStatus(db, Task.election) = {StatusString(elections[Task.election].status)}

\* C34: a task that writes to the store does not hold the guard of the
\* election map while it does so.
C34_NoStoreWriteUnderLock ==
    [][db' # db =>
          \A task \in MutexTasks : pc'[task] # pc[task] => elections_guard # task]_vars

\* The h_n of the used-token rows the store holds for the election under id
StoredUsedTokens(d, id) == {ParseBytes16(token) : token \in LoadUsedTokens(d, id)}

\* C35: in every state the h_n of the used-token rows of an election are
\* among its used_tokens in memory, and it has no more votes than used
\* tokens.
C35_UsedTokenBeforeVoteAndRow ==
    \A id \in DOMAIN elections :
        /\ StoredUsedTokens(db, id) \subseteq elections[id].used_tokens
        /\ Len(elections[id].votes) <= Cardinality(elections[id].used_tokens)

\* C36: an h_n on which some election has accepted a vote is accepted by
\* no other election: no h_n is among the accepted h_n of two elections.
C36_OneBallotPerToken ==
    \A id1, id2 \in DOMAIN elections :
        id1 # id2 => hist[id1].accepted \cap hist[id2].accepted = {}

\* The count the store holds for a candidate of an election
StoredCount(d, id, candidate_id) ==
    {r.vote_count : r \in {r \in d.candidates :
                              r.election_id = id /\ r.candidate_id = candidate_id}}

\* C37: the count the store holds for a candidate never decreases, across
\* restarts too, and after an accepted vote the count stored and the count
\* published for its candidate equal the number of votes accepted for it,
\* before and after any restart.
C37_CountsSurviveRestart ==
    [][/\ \A r \in db.candidates :
             \A n \in StoredCount(db', r.election_id, r.candidate_id) : n >= r.vote_count
       /\ (last'.op = "vote" /\ last'.ok) =>
             \A id \in DOMAIN last'.calls :
                last'.calls[id] = Ok =>
                   /\ StoredCount(db', id, last'.req.vote)
                         = {Cardinality(hist'[id].accepted)}
                   /\ last'.sent[1].body
                         = {<<last'.req.vote, Cardinality(hist'[id].accepted)>>}]_vars

\* C38: an AddVoter on an election that is not Open leaves the voter out of
\* authorized_voters, adds no election_voters row, authorizes nobody more
\* after a restart, and does not report success.
C38_AddVoterOnlyWhenOpen ==
    [][(/\ last'.op = "add_voter"
        /\ last'.req.election_id \in DOMAIN elections
        /\ elections[last'.req.election_id].status # Open)
       => LET id == last'.req.election_id
          IN  /\ elections'[id].authorized_voters = elections[id].authorized_voters
              /\ db'.election_voters = db.election_voters
              /\ LoadElectionsFromDatabase(db')[id].authorized_voters
                    = LoadElectionsFromDatabase(db)[id].authorized_voters
              /\ ~last'.ok]_vars

\* C39: a token request without election_id yields at most one signature
\* and changes at most one election: the voter leaves the authorized_voters
\* of at most one election, also when a signing attempt fails.
C39_LegacyRequestOneElection ==
    [][(last'.op = "token" /\ last'.req.election_id = NoId)
       => /\ Len(last'.sent) <= 1
          /\ Cardinality({id \in DOMAIN last'.calls : last'.calls[id] = Ok}) <= 1
          /\ Cardinality({id \in DOMAIN elections :
                            elections'[id].authorized_voters
                               # elections[id].authorized_voters}) <= 1]_vars

\* C40: a successful AddElection adds exactly one election to the map and
\* one row to the elections of the store, and leaves every election that
\* was in the map as it was.
C40_AddElectionKeepsElections ==
    [][(last'.op = "add_election" /\ last'.ok)
       => /\ Cardinality(DOMAIN elections') = Cardinality(DOMAIN elections) + 1
          /\ Cardinality(db'.elections) = Cardinality(db.elections) + 1
          /\ \A id \in DOMAIN elections :
                id \in DOMAIN elections' /\ elections'[id] = elections[id]]_vars

====
